---- MODULE Spec2Model ----
(***************************************************************************)
(* LLMChat: the chat store (src/stores/chat.ts), the chatSessions store,   *)
(* the mock completion backend with its chunk source, and the snapshot     *)
(* persistence on localStorage.                                            *)
(*                                                                         *)
(* JavaScript runs one task at a time.  An action of this module is one    *)
(* task: the synchronous part of an entry call up to its first suspended   *)
(* await, or the continuation that runs when a pending request, timer or   *)
(* blob operation settles, up to the next suspended await.                 *)
(*                                                                         *)
(* Strings are sequences of one-character strings.  The ids nanoid(10)     *)
(* makes for sessions and nanoid(12) makes for messages are the successive *)
(* values of the counters sessionSeq and messageSeq.                       *)
(***************************************************************************)
EXTENDS Integers, Sequences, FiniteSets, TLC

VARIABLES
    sessions,           \* chatSessions.sessions: ChatSession[]
    activeSessionId,    \* chatSessions.activeSessionId
    messagesBySession,  \* chat.messagesBySession: Record<string, ChatMessage[]>
    streamingMessageId, \* chat.streamingMessageId
    isSending,          \* chat.isSending
    abortController,    \* chat.abortController: the controller's id, or Null
    aborted,            \* the controllers whose signal.aborted is true
    storage,            \* the localStorage item 'llmchat:v1'
    lastSnapshot,       \* history: the stores' state at the last persist()
    calls,              \* the async calls in flight: call id -> its frame
    started,            \* how many async calls were started (the last call id)
    sessionSeq,         \* how many session ids nanoid(10) has produced
    messageSeq,         \* how many message ids nanoid(12) has produced
    now,                \* Date.now()
    ev                  \* history: the task that produced this state

vars == <<sessions, activeSessionId, messagesBySession, streamingMessageId,
          isSending, abortController, aborted, storage, lastSnapshot, calls,
          started, sessionSeq, messageSeq, now, ev>>

disk == <<storage, lastSnapshot>>

(***************************************************************************)
(* Bounds of the model.                                                    *)
(***************************************************************************)
\* async calls (sendMessage, sendFiles, regenerate, a suspended deleteSession)
\* per behaviour
MaxCalls == 1
\* generation calls per behaviour where only generations run (SpecRace)
MaxRace == 3
\* the last session id: the sessions restored and created per behaviour
MaxSessions == 1
\* the sessions created per behaviour of the registry alone (SpecTitles)
MaxTitled == 3
\* the last value of the clock
MaxClock == 1

(***************************************************************************)
(* Values.                                                                 *)
(***************************************************************************)
\* null / undefined where an id or a controller is expected (ids start at 1)
Null == 0

\* streamText's chunkSize as streamIntoMessage passes it
ChunkSize == 4

\* buildContextMessages keeps the last 8 text messages
ContextWindow == 8

\* the version saveToStorage writes
StorageVersion == 1

Whitespace == {" ", "\n"}

Digits == <<"0", "1", "2", "3", "4", "5", "6", "7", "8", "9">>

\* the five characters of the auto title's prefix, the last one a space
AutoPrefix == <<"xin", "de", "dui", "hua", " ">>

NoCard == [cardType |-> "none"]

\* the cards of mock-data.json a response may carry
CardCatalog ==
    { [cardType |-> "contact", title |-> <<"c">>, description |-> "d",
       actionText |-> "t", actionUrl |-> "u"] }

\* the texts a caller passes to sendMessage
TextInputs == { <<>>, <<" ">>, <<" ", "h", "\n">> }

\* the contents a completion response carries
Responses == { <<"H", "e", "l", "l", "o">> }

\* the files a caller passes to sendFiles
FileA == [name |-> <<"a">>, size |-> 2048, type |-> "image/png"]

FileB == [name |-> <<"b">>, size |-> 10, type |-> ""]

FileBatches == { <<FileA, FileB>> }

Min(a, b) == IF a < b THEN a ELSE b

Max(a, b) == IF a > b THEN a ELSE b

(***************************************************************************)
(* String.prototype.trim                                                   *)
(***************************************************************************)
RECURSIVE TrimStart(_)
TrimStart(s) ==
    IF s # <<>> /\ Head(s) \in Whitespace THEN TrimStart(Tail(s)) ELSE s

RECURSIVE TrimEnd(_)
TrimEnd(s) ==
    IF s # <<>> /\ s[Len(s)] \in Whitespace
    THEN TrimEnd(SubSeq(s, 1, Len(s) - 1))
    ELSE s

TrimIdentity(s) == s

Trim(s) == TrimEnd(TrimStart(s))

(***************************************************************************)
(* chatSessions store: createSession's title numbering                     *)
(***************************************************************************)
IsDigit(c) == \E i \in 1..Len(Digits) : Digits[i] = c

DigitValue(c) == (CHOOSE i \in 1..Len(Digits) : Digits[i] = c) - 1

\* parseInt(ds, 10) of a non-empty string of digits
RECURSIVE ParseInt(_)
ParseInt(ds) ==
    IF ds = <<>> THEN 0
    ELSE 10 * ParseInt(SubSeq(ds, 1, Len(ds) - 1)) + DigitValue(ds[Len(ds)])

\* s.title.match(/^<prefix>(\d+)$/): the number parsed from the group, else 0
TitleNumber(title) ==
    LET n == Len(AutoPrefix)
        ds == SubSeq(title, n + 1, Len(title))
    IN  IF /\ Len(title) > n
           /\ SubSeq(title, 1, n) = AutoPrefix
           /\ \A i \in 1..Len(ds) : IsDigit(ds[i])
        THEN ParseInt(ds)
        ELSE 0

\* the template literal `${n}` of a positive integer
RECURSIVE DecimalString(_)
DecimalString(n) ==
    IF n < 10 THEN <<Digits[n + 1]>>
    ELSE DecimalString(n \div 10) \o <<Digits[(n % 10) + 1]>>

ExistingNumbers(ss) ==
    LET mapped == [i \in 1..Len(ss) |-> TitleNumber(ss[i].title)]
    IN  SortSeq(SelectSeq(mapped, LAMBDA n : n > 0), LAMBDA a, b : a < b)

\* the loop "for (const num of existingNumbers)" from position i on
RECURSIVE ScanNumbers(_, _, _)
ScanNumbers(nums, i, nextNumber) ==
    IF i > Len(nums) THEN nextNumber
    ELSE IF nums[i] = nextNumber THEN ScanNumbers(nums, i + 1, nextNumber + 1)
    ELSE IF nums[i] > nextNumber THEN nextNumber
    ELSE ScanNumbers(nums, i + 1, nextNumber)

NextNumber(ss) == ScanNumbers(ExistingNumbers(ss), 1, 1)

\* the session createSession(title) builds; title <<>> stands for no title
NewSession(ss, title, id, t) ==
    [id |-> id,
     title |-> IF Trim(title) # <<>> THEN Trim(title)
               ELSE AutoPrefix \o DecimalString(NextNumber(ss)),
     createdAt |-> t,
     updatedAt |-> t,
     messageIds |-> <<>>]

\* this.sessions.unshift(newSession)
CreateSession(ss, title, id, t) == <<NewSession(ss, title, id, t)>> \o ss

(***************************************************************************)
(* chatSessions store: the other actions, on the session list ss           *)
(***************************************************************************)
HasSession(ss, id) == \E i \in 1..Len(ss) : ss[i].id = id

\* this.sessions.find(session => session.id === id), as an index (0: none)
FindSession(ss, id) ==
    IF HasSession(ss, id)
    THEN CHOOSE i \in 1..Len(ss) :
            ss[i].id = id /\ \A j \in 1..(i - 1) : ss[j].id # id
    ELSE 0

Includes(seq, x) == \E i \in 1..Len(seq) : seq[i] = x

RenameSession(ss, id, title, t) ==
    LET i == FindSession(ss, id)
    IN  IF i = 0 THEN ss
        ELSE [ss EXCEPT ![i].title = title, ![i].updatedAt = t]

RegistryDelete(ss, id) == SelectSeq(ss, LAMBDA s : s.id # id)

ActiveAfterDeleteKeep(active, id, ssAfter) == active

\* the active pointer after deleteSession(id) left the list ssAfter
ActiveAfterDelete(active, id, ssAfter) ==
    IF active = id
    THEN (IF ssAfter # <<>> THEN ssAfter[1].id ELSE Null)
    ELSE active

TouchSession(ss, id, t) ==
    LET i == FindSession(ss, id)
    IN  IF i = 0 THEN ss ELSE [ss EXCEPT ![i].updatedAt = t]

AppendMessageIdAlways(ss, sessionId, messageId, t) ==
    LET i == FindSession(ss, sessionId)
    IN  IF i # 0
        THEN [ss EXCEPT ![i].messageIds = Append(@, messageId),
                        ![i].updatedAt = t]
        ELSE ss

AppendMessageId(ss, sessionId, messageId, t) ==
    LET i == FindSession(ss, sessionId)
    IN  IF i # 0 /\ ~Includes(ss[i].messageIds, messageId)
        THEN [ss EXCEPT ![i].messageIds = Append(@, messageId),
                        ![i].updatedAt = t]
        ELSE ss

ReplaceMessageIdsNever(ss, sessionId, messageIds, t) == ss

ReplaceMessageIds(ss, sessionId, messageIds, t) ==
    LET i == FindSession(ss, sessionId)
    IN  IF i # 0
        THEN [ss EXCEPT ![i].messageIds = messageIds, ![i].updatedAt = t]
        ELSE ss

(***************************************************************************)
(* Snapshot persistence (chatPersistence.ts, utils/storage.ts).  A stored  *)
(* text is held as the JSON value it denotes; the store holds only         *)
(* strings, finite numbers, arrays and plain objects without undefined     *)
(* members, which JSON.stringify and JSON.parse keep as they are.          *)
(***************************************************************************)
NoItem == [kind |-> "absent"]

DefaultState == [sessions |-> <<>>, messages |-> <<>>]

\* JSON.stringify(value) and JSON.parse(text)
JsonStringify(value) == [kind |-> "json", value |-> value]

JsonParse(text) == text.value

\* clone = JSON.parse(JSON.stringify(value))
Clone(value) == JsonParse(JsonStringify(value))

MakePersistedStateSessionsOnly(ss, mbs) ==
    [sessions |-> Clone(ss), messages |-> <<>>]

MakePersistedState(ss, mbs) == [sessions |-> Clone(ss), messages |-> Clone(mbs)]

\* window.localStorage.setItem(STORAGE_KEY, JSON.stringify({version: 1, data}))
SaveToStorage(data) ==
    JsonStringify([version |-> StorageVersion, data |-> data])

PersistNothing(ss, mbs) == storage

\* chat.persist()
Persist(ss, mbs) == SaveToStorage(MakePersistedState(ss, mbs))

Persisting(ss, mbs) ==
    /\ storage' = Persist(ss, mbs)
    /\ lastSnapshot' = [sessions |-> ss, messages |-> mbs]

\* the values null and undefined where an object is expected
JsonNull == [jsType |-> "null"]

Undefined == [jsType |-> "undefined"]

\* a text that is no JSON text
NotJson == [kind |-> "text"]

\* loadFromStorage(fallback): getItem gives null ("if (!raw) return
\* fallback"); JSON.parse throws on a text that is no JSON, and reading .data
\* of null throws, both into the catch block; otherwise parsed.data is
\* returned, which is undefined when the parsed object has no member data
LoadFromStorage(item, fallback) ==
    IF item.kind = "absent" THEN fallback
    ELSE IF item.kind = "text" THEN fallback
    ELSE IF JsonParse(item) = JsonNull THEN fallback
    ELSE IF "data" \in DOMAIN JsonParse(item) THEN JsonParse(item).data
    ELSE Undefined

ReadInitialChatState(item) == LoadFromStorage(item, Clone(DefaultState))

(***************************************************************************)
(* chat store: messages                                                    *)
(***************************************************************************)
TextMessage(id, sid, role, content, status, t) ==
    [id |-> id, sessionId |-> sid, role |-> role, type |-> "text",
     content |-> content, createdAt |-> t, status |-> status]

StorageKey(msgId) == <<"file_", msgId>>

FileMessage(id, sid, file, t) ==
    [id |-> id, sessionId |-> sid, role |-> "user", type |-> "file",
     content |-> file.name, createdAt |-> t, status |-> "sent",
     metadata |-> [size |-> file.size, mime |-> file.type],
     attachment |-> [name |-> file.name, size |-> file.size,
                     mime |-> file.type, storageKey |-> StorageKey(id)]]

CardMessage(id, sid, card, t) ==
    [id |-> id, sessionId |-> sid, role |-> "assistant", type |-> "card",
     content |-> card.title, createdAt |-> t, status |-> "sent",
     card |-> card]

\* getMessages(sessionId) makes the session's list when it is missing
GetMessages(mbs, sid) ==
    IF sid \in DOMAIN mbs THEN mbs ELSE mbs @@ (sid :> <<>>)

\* list.find(msg => msg.id === messageId), as an index (0: none)
FindMessage(list, mid) ==
    IF \E i \in 1..Len(list) : list[i].id = mid
    THEN CHOOSE i \in 1..Len(list) :
            list[i].id = mid /\ \A j \in 1..(i - 1) : list[j].id # mid
    ELSE 0

\* a store is the pair the two Pinia stores hold: [ss: sessions, mbs: messages]
AppendMessage(w, sid, msg, t) ==
    LET m1 == GetMessages(w.mbs, sid)
    IN  [ss |-> AppendMessageId(w.ss, sid, msg.id, t),
         mbs |-> [m1 EXCEPT ![sid] = Append(@, msg)]]

SetMessageStatusNever(mbs, sid, mid, status) == GetMessages(mbs, sid)

SetMessageStatus(mbs, sid, mid, status) ==
    LET m1 == GetMessages(mbs, sid)
        i == FindMessage(m1[sid], mid)
    IN  IF i = 0 THEN m1 ELSE [m1 EXCEPT ![sid][i].status = status]

ClearContentAndBefore(mbs, sid, mid) ==
    LET m1 == GetMessages(mbs, sid)
        i == FindMessage(m1[sid], mid)
    IN  IF i = 0 THEN m1
        ELSE [m1 EXCEPT ![sid] = [j \in 1..Len(@) |->
                 IF j \in {i - 1, i} THEN [@[j] EXCEPT !.content = <<>>]
                 ELSE @[j]]]

\* updateMessage(..., msg => { msg.content = '' })
ClearContent(mbs, sid, mid) ==
    LET m1 == GetMessages(mbs, sid)
        i == FindMessage(m1[sid], mid)
    IN  IF i = 0 THEN m1 ELSE [m1 EXCEPT ![sid][i].content = <<>>]

\* updateMessage(..., msg => { msg.content = ''; msg.status = 'streaming' })
ResetMessage(mbs, sid, mid) ==
    LET m1 == GetMessages(mbs, sid)
        i == FindMessage(m1[sid], mid)
    IN  IF i = 0 THEN m1
        ELSE [m1 EXCEPT ![sid][i].content = <<>>,
                        ![sid][i].status = "streaming"]

\* updateMessage(..., msg => { msg.content += chunk })
AppendChunk(mbs, sid, mid, chunk) ==
    LET m1 == GetMessages(mbs, sid)
        i == FindMessage(m1[sid], mid)
    IN  IF i = 0 THEN m1 ELSE [m1 EXCEPT ![sid][i].content = @ \o chunk]

BuildContextMessagesAll(mbs, sid) ==
    LET list == GetMessages(mbs, sid)[sid]
        textMessages ==
            SelectSeq(list, LAMBDA m : m.type = "text" /\ m.status # "streaming")
    IN  [i \in 1..Len(textMessages) |->
            [role |-> textMessages[i].role, content |-> textMessages[i].content]]

\* textMessages.slice(-8).map(msg => ({role, content})) of buildContextMessages
BuildContextMessages(mbs, sid) ==
    LET list == GetMessages(mbs, sid)[sid]
        textMessages ==
            SelectSeq(list, LAMBDA m : m.type = "text" /\ m.status # "streaming")
        n == Len(textMessages)
        slice == SubSeq(textMessages, Max(1, n - ContextWindow + 1), n)
    IN  [i \in 1..Len(slice) |->
            [role |-> slice[i].role, content |-> slice[i].content]]

\* Math.round(size / 1024)
RoundKB(size) == (2 * size + 1024) \div 2048

\* files.map(f => `${f.name} (${Math.round(f.size / 1024)} KB)`).join(', ')
RECURSIVE UploadedFiles(_)
UploadedFiles(files) ==
    IF files = <<>> THEN <<>>
    ELSE Head(files).name \o <<" (">> \o DecimalString(RoundKB(Head(files).size))
            \o <<" KB)">>
            \o (IF Tail(files) = <<>> THEN <<>>
                ELSE <<", ">> \o UploadedFiles(Tail(files)))

\* the line sendFiles sends with the request and appends to no list
SummaryForApi(files) == <<"yi shang chuan wen jian:">> \o UploadedFiles(files)

SendFilesRequestBare(mbs, sid, files) == BuildContextMessages(mbs, sid)

\* messages: [...contextMessages, { role: 'user', content: summaryForApi }]
SendFilesRequest(mbs, sid, files) ==
    BuildContextMessages(mbs, sid)
        \o <<[role |-> "user", content |-> SummaryForApi(files)]>>

(***************************************************************************)
(* The chunk source streamText(content, {chunkSize: 4, signal})            *)
(***************************************************************************)
\* the chunk streamText cuts at cursor: content.slice(cursor, nextCursor)
NextCursor(content, cursor) == Min(Len(content), cursor + ChunkSize)

ChunkAt(content, cursor) ==
    SubSeq(content, cursor + 1, NextCursor(content, cursor))

\* options.signal?.aborted for the signal of controller sig (Null: no signal)
SignalAborted(sig, abortedSet) == sig # Null /\ sig \in abortedSet

(***************************************************************************)
(* chat store: the frames of its async calls                               *)
(***************************************************************************)
\* the locals of an async call: sid is sessionId, target the placeholder's
\* (or the regenerated message's) id; content and card are the response;
\* sig is the signal streamIntoMessage handed to streamText and cursor
\* streamText's cursor before the chunk whose timer is pending; files and idx
\* are sendFiles' batch and loop position and msgId the id of the file being
\* saved; for deleteSession idx is the position of its for-of loop in list,
\* which is the session's array itself until the store drops that array
\* (detached), and the copy the call still holds afterwards; resent records
\* that sendMessage was called again while this call was in flight, made
\* lists the ids of the file messages sendFiles has appended, and wiped lists
\* the blob deletes deleteSession has awaited (msgId is the message of the
\* pending one) with their outcomes; late counts the chunks the call has
\* appended since its own AbortController was aborted
Frame(kind, pc, sid, target) ==
    [kind |-> kind, pc |-> pc, sid |-> sid, target |-> target,
     content |-> <<>>, card |-> NoCard, sig |-> Null, cursor |-> 0,
     files |-> <<>>, idx |-> 0, msgId |-> Null, detached |-> FALSE,
     list |-> <<>>, resent |-> FALSE, made |-> <<>>, wiped |-> <<>>,
     late |-> 0]

InFlight == DOMAIN calls

Without(o) == [c \in InFlight \ {o} |-> calls[c]]

\* this.abortController?.abort()
AbortPrevious(ctl, abortedSet) ==
    IF ctl # Null THEN abortedSet \cup {ctl} ELSE abortedSet

Idle == [op |-> "task"]

Settled(o, f, outcome, raised, thrown) ==
    [op |-> "settled", kind |-> f.kind, call |-> o, sid |-> f.sid,
     target |-> f.target, outcome |-> outcome, raised |-> raised,
     thrown |-> thrown, content |-> f.content, card |-> f.card,
     cancelled |-> (o \in aborted), resent |-> f.resent, files |-> f.files,
     made |-> f.made]

(***************************************************************************)
(* ensureSession(): the active session, or a new one made by               *)
(* startNewSession().  EnsureStore is the store afterwards.                *)
(***************************************************************************)
EnsureId == IF activeSessionId # Null THEN activeSessionId ELSE sessionSeq + 1

EnsureStoreKeep == [ss |-> sessions, mbs |-> messagesBySession]

EnsureStore ==
    IF activeSessionId # Null
    THEN [ss |-> sessions, mbs |-> messagesBySession]
    ELSE [ss |-> CreateSession(sessions, <<>>, sessionSeq + 1, now),
          mbs |-> (sessionSeq + 1 :> <<>>) @@ messagesBySession]

EnsureSeq == IF activeSessionId # Null THEN sessionSeq ELSE sessionSeq + 1

(***************************************************************************)
(* sendMessage(content): the synchronous part, to the await of             *)
(* createChatCompletion                                                    *)
(***************************************************************************)
SendMessageBlank(text) ==
    /\ Trim(text) = <<>>
    /\ ev' = [op |-> "sendMessage", text |-> text, call |-> Null]
    /\ UNCHANGED <<sessions, activeSessionId, messagesBySession,
                   streamingMessageId, isSending, abortController, aborted,
                   disk, calls, started, sessionSeq, messageSeq, now>>

SendMessageStart(text, limit) ==
    /\ Trim(text) # <<>>
    /\ started < limit
    /\ activeSessionId = Null => sessionSeq < MaxSessions
    /\ LET o == started + 1
           sid == EnsureId
           userMessage ==
               TextMessage(messageSeq + 1, sid, "user", Trim(text), "sent", now)
           placeholder ==
               TextMessage(messageSeq + 2, sid, "assistant", <<>>, "streaming", now)
           w1 == AppendMessage(EnsureStore, sid, userMessage, now)
           w2 == AppendMessage(w1, sid, placeholder, now)
       IN  /\ sessions' = w2.ss
           /\ messagesBySession' = w2.mbs
           /\ streamingMessageId' = placeholder.id
           /\ isSending' = TRUE
           /\ Persisting(w2.ss, w2.mbs)
           /\ activeSessionId' = sid
           /\ aborted' = AbortPrevious(abortController, aborted)
           /\ abortController' = o
           /\ calls' = (o :> Frame("sendMessage", "await_completion", sid,
                                   placeholder.id))
                       @@ [c \in InFlight |->
                             IF calls[c].kind = "sendMessage"
                             THEN [calls[c] EXCEPT !.resent = TRUE]
                             ELSE calls[c]]
           /\ started' = o
           /\ sessionSeq' = EnsureSeq
           /\ messageSeq' = messageSeq + 2
           /\ ev' = [op |-> "sendMessage", text |-> text, call |-> o,
                     request |-> BuildContextMessages(w2.mbs, sid),
                     created |-> (activeSessionId = Null)]
    /\ UNCHANGED now

SendMessage(limit) == \E text \in TextInputs : SendMessageStart(text, limit)

SendMessageNoop == \E text \in TextInputs : SendMessageBlank(text)

(***************************************************************************)
(* The tails of the async calls: what runs once the streaming writer has   *)
(* returned (raised = "none") or the request or the writer has thrown      *)
(* raised, with mbs the messages as the writer left them.                  *)
(***************************************************************************)
\* "if (card) this.appendMessage(sessionId, {... type: 'card' ...})"
WithCard(w, f) ==
    IF f.card.cardType # "none"
    THEN AppendMessage(w, f.sid, CardMessage(messageSeq + 1, f.sid, f.card, now), now)
    ELSE w

CardSeq(f) == IF f.card.cardType # "none" THEN messageSeq + 1 ELSE messageSeq

\* sendMessage: lines 124-139 of the try block, or the catch block; then finally
SendMessageSettle(o, f, mbs, raised) ==
    /\ IF raised = "none"
       THEN LET w == WithCard([ss |-> sessions,
                               mbs |-> SetMessageStatus(mbs, f.sid, f.target, "sent")],
                              f)
                ss == TouchSession(w.ss, f.sid, now)
            IN  /\ sessions' = ss
                /\ messagesBySession' = w.mbs
                /\ Persisting(ss, w.mbs)
                /\ messageSeq' = CardSeq(f)
                /\ ev' = Settled(o, f, "resolved", raised, "none")
       ELSE LET m == SetMessageStatus(mbs, f.sid, f.target, "error")
            IN  /\ sessions' = sessions
                /\ messagesBySession' = m
                /\ Persisting(sessions, m)
                /\ messageSeq' = messageSeq
                /\ ev' = Settled(o, f, "rejected", raised, raised)
    /\ streamingMessageId' = Null
    /\ isSending' = FALSE
    /\ abortController' = Null
    /\ calls' = Without(o)
    /\ UNCHANGED <<activeSessionId, aborted, started, sessionSeq, now>>

SendFilesSettleRethrowing(o, f, mbs, raised) ==
    SendMessageSettle(o, f, mbs, raised)

\* sendFiles: lines 226-239 of the inner try, or the inner catch; then lines
\* 251-252 and finally.  The inner catch swallows the error.
SendFilesSettle(o, f, mbs, raised) ==
    /\ IF raised = "none"
       THEN LET w == WithCard([ss |-> sessions,
                               mbs |-> SetMessageStatus(mbs, f.sid, f.target, "sent")],
                              f)
                ss == TouchSession(w.ss, f.sid, now)
            IN  /\ sessions' = ss
                /\ messagesBySession' = w.mbs
                /\ Persisting(ss, w.mbs)
                /\ messageSeq' = CardSeq(f)
       ELSE LET m == SetMessageStatus(mbs, f.sid, f.target, "error")
                ss == TouchSession(sessions, f.sid, now)
            IN  /\ sessions' = ss
                /\ messagesBySession' = m
                /\ Persisting(ss, m)
                /\ messageSeq' = messageSeq
    /\ ev' = Settled(o, f, "resolved", raised, "none")
    /\ streamingMessageId' = Null
    /\ isSending' = FALSE
    /\ calls' = Without(o)
    /\ UNCHANGED <<activeSessionId, abortController, aborted, started,
                   sessionSeq, now>>

\* regenerateAssistantMessage: lines 335-349 of the try block, or the catch
\* block, which swallows every error; then finally
RegenerateSettle(o, f, mbs, raised) ==
    /\ IF raised = "none"
       THEN LET w == WithCard([ss |-> sessions,
                               mbs |-> SetMessageStatus(mbs, f.sid, f.target, "sent")],
                              f)
            IN  /\ sessions' = w.ss
                /\ messagesBySession' = w.mbs
                /\ Persisting(w.ss, w.mbs)
                /\ messageSeq' = CardSeq(f)
       ELSE LET m == SetMessageStatus(mbs, f.sid, f.target, "error")
            IN  /\ sessions' = sessions
                /\ messagesBySession' = m
                /\ Persisting(sessions, m)
                /\ messageSeq' = messageSeq
    /\ ev' = Settled(o, f, "resolved", raised, "none")
    /\ abortController' = Null
    /\ calls' = Without(o)
    /\ UNCHANGED <<activeSessionId, streamingMessageId, isSending, aborted,
                   started, sessionSeq, now>>

Settle(o, f, mbs, raised) ==
    CASE f.kind = "sendMessage" -> SendMessageSettle(o, f, mbs, raised)
      [] f.kind = "sendFiles" -> SendFilesSettle(o, f, mbs, raised)
      [] f.kind = "regenerate" -> RegenerateSettle(o, f, mbs, raised)

(***************************************************************************)
(* streamIntoMessage(sessionId, messageId, content) over streamText        *)
(***************************************************************************)
\* the writer waits for the timer of the chunk at cursor
Suspend(o, f, mbs, cursor) ==
    /\ calls' = [calls EXCEPT ![o] = [f EXCEPT !.pc = "await_chunk",
                                               !.cursor = cursor]]
    /\ messagesBySession' = mbs
    /\ ev' = Idle
    /\ UNCHANGED <<sessions, activeSessionId, streamingMessageId, isSending,
                   abortController, aborted, disk, started, sessionSeq,
                   messageSeq, now>>

WriterLoopRaising(o, f, mbs, cursor) ==
    IF cursor >= Len(f.content)
    THEN Settle(o, [f EXCEPT !.cursor = cursor], mbs, "none")
    ELSE IF SignalAborted(f.sig, aborted)
    THEN Settle(o, [f EXCEPT !.cursor = cursor], mbs, "AbortError")
    ELSE Suspend(o, f, mbs, cursor)

\* streamText's loop entry at cursor: the source is exhausted, or its signal
\* is aborted and the AbortError is swallowed by streamIntoMessage's catch
\* (both return to the caller), or the next chunk's timer is set
WriterLoop(o, f, mbs, cursor) ==
    IF cursor >= Len(f.content) \/ SignalAborted(f.sig, aborted)
    THEN Settle(o, [f EXCEPT !.cursor = cursor], mbs, "none")
    ELSE Suspend(o, f, mbs, cursor)

\* the completion request resolves with {response, card}; streamIntoMessage
\* resets the target and reads the store's current controller for its signal
CompletionResolve(o) ==
    /\ o \in InFlight
    /\ calls[o].pc = "await_completion"
    /\ \E content \in Responses, card \in CardCatalog \cup {NoCard} :
          WriterLoop(o,
                     [calls[o] EXCEPT !.content = content, !.card = card,
                                      !.sig = abortController],
                     ResetMessage(messagesBySession, calls[o].sid, calls[o].target),
                     0)

\* the completion request rejects (mockChatCompletion's simulated error)
CompletionReject(o) ==
    /\ o \in InFlight
    /\ calls[o].pc = "await_completion"
    /\ Settle(o, calls[o], messagesBySession, "ApiError")

\* a chunk's timer fires and the chunk is yielded and appended
ChunkTimer(o) ==
    /\ o \in InFlight
    /\ calls[o].pc = "await_chunk"
    /\ LET f == [calls[o] EXCEPT !.late = IF o \in aborted THEN @ + 1 ELSE @]
       IN  WriterLoop(o, f,
                      AppendChunk(messagesBySession, f.sid, f.target,
                                  ChunkAt(f.content, f.cursor)),
                      NextCursor(f.content, f.cursor))

\* a chunk's timer fires and streamText throws its simulated stream error
ChunkError(o) ==
    /\ o \in InFlight
    /\ calls[o].pc = "await_chunk"
    /\ Settle(o, calls[o], messagesBySession, "StreamError")

(***************************************************************************)
(* sendFiles(files)                                                        *)
(***************************************************************************)
SendFilesEmpty ==
    /\ ev' = [op |-> "sendFiles", files |-> <<>>, call |-> Null]
    /\ UNCHANGED <<sessions, activeSessionId, messagesBySession,
                   streamingMessageId, isSending, abortController, aborted,
                   disk, calls, started, sessionSeq, messageSeq, now>>

\* the synchronous part, to the await of the first saveFile
SendFilesStart(files, limit) ==
    /\ started < limit
    /\ activeSessionId = Null => sessionSeq < MaxSessions
    /\ LET o == started + 1
           sid == EnsureId
           w == EnsureStore
       IN  /\ sessions' = w.ss
           /\ messagesBySession' = w.mbs
           /\ IF activeSessionId = Null THEN Persisting(w.ss, w.mbs)
              ELSE UNCHANGED disk
           /\ activeSessionId' = sid
           /\ isSending' = TRUE
           /\ calls' = (o :> [Frame("sendFiles", "await_save", sid, Null)
                                EXCEPT !.files = files, !.idx = 1,
                                       !.msgId = messageSeq + 1])
                       @@ calls
           /\ started' = o
           /\ sessionSeq' = EnsureSeq
           /\ messageSeq' = messageSeq + 1
           /\ ev' = [op |-> "sendFiles", files |-> files, call |-> o,
                     created |-> (activeSessionId = Null)]
    /\ UNCHANGED <<streamingMessageId, abortController, aborted, now>>

SendFiles(limit) == \E files \in FileBatches : SendFilesStart(files, limit)

\* the task that runs after a saveFile that failed: the catch block of line
\* 171 has logged the error
BlobFailed(o, f) ==
    [op |-> "blobFailed", call |-> o, sid |-> f.sid, msgId |-> f.msgId,
     file |-> f.files[f.idx]]

SaveSettledNextRaising(o) ==
    /\ o \in InFlight
    /\ calls[o].pc = "await_save"
    /\ calls[o].idx < Len(calls[o].files)
    /\ isSending' = FALSE
    /\ calls' = Without(o)
    /\ ev' = Settled(o, calls[o], "rejected", "StorageError", "StorageError")
    /\ UNCHANGED <<sessions, activeSessionId, messagesBySession,
                   streamingMessageId, abortController, aborted, disk, started,
                   sessionSeq, messageSeq, now>>

\* saveFile settles, fulfilled (ok) or rejected, which is only logged: the file
\* message is appended; then the next file's id is made and its saveFile
\* awaited
SaveSettledNext(o) ==
    /\ o \in InFlight
    /\ calls[o].pc = "await_save"
    /\ calls[o].idx < Len(calls[o].files)
    /\ \E ok \in BOOLEAN : ev' = IF ok THEN Idle ELSE BlobFailed(o, calls[o])
    /\ LET f == calls[o]
           w == AppendMessage([ss |-> sessions, mbs |-> messagesBySession], f.sid,
                              FileMessage(f.msgId, f.sid, f.files[f.idx], now), now)
       IN  /\ sessions' = w.ss
           /\ messagesBySession' = w.mbs
           /\ calls' = [calls EXCEPT ![o].idx = f.idx + 1,
                                     ![o].msgId = messageSeq + 1,
                                     ![o].made = Append(@, f.msgId)]
           /\ messageSeq' = messageSeq + 1
    /\ UNCHANGED <<activeSessionId, streamingMessageId, isSending,
                   abortController, aborted, disk, started, sessionSeq, now>>

\* saveFile of the last file settles, fulfilled (saved) or rejected: the file
\* message and the placeholder are appended, and the call runs on to the
\* await of createChatCompletion
SaveSettledLast(o) ==
    /\ o \in InFlight
    /\ calls[o].pc = "await_save"
    /\ calls[o].idx = Len(calls[o].files)
    /\ LET f == calls[o]
           w1 == AppendMessage([ss |-> sessions, mbs |-> messagesBySession], f.sid,
                               FileMessage(f.msgId, f.sid, f.files[f.idx], now), now)
           placeholder ==
               TextMessage(messageSeq + 1, f.sid, "assistant", <<>>, "streaming", now)
           w2 == AppendMessage(w1, f.sid, placeholder, now)
       IN  /\ sessions' = w2.ss
           /\ messagesBySession' = w2.mbs
           /\ streamingMessageId' = placeholder.id
           /\ Persisting(w2.ss, w2.mbs)
           \* buildContextMessages calls setActiveSession(sessionId), line 262
           /\ activeSessionId' = f.sid
           /\ aborted' = AbortPrevious(abortController, aborted)
           /\ abortController' = o
           /\ calls' = [calls EXCEPT ![o].pc = "await_completion",
                                     ![o].target = placeholder.id,
                                     ![o].msgId = Null,
                                     ![o].made = Append(@, f.msgId)]
           /\ messageSeq' = messageSeq + 1
           /\ \E ok \in BOOLEAN :
                 ev' = [op |-> "sendFilesStage", call |-> o, sid |-> f.sid,
                        files |-> f.files, saved |-> ok,
                        request |-> SendFilesRequest(w2.mbs, f.sid, f.files)]
    /\ UNCHANGED <<isSending, started, sessionSeq, now>>

(***************************************************************************)
(* regenerateAssistantMessage(messageId)                                   *)
(***************************************************************************)
PreviousUserFirst(list, index) ==
    IF \E j \in 1..(index - 1) : list[j].role = "user"
    THEN CHOOSE j \in 1..(index - 1) :
            list[j].role = "user" /\ \A k \in 1..(j - 1) : list[k].role # "user"
    ELSE 0

\* [...list].slice(0, index).reverse().find(msg => msg.role === 'user'), as an
\* index (0: none)
PreviousUser(list, index) ==
    IF \E j \in 1..(index - 1) : list[j].role = "user"
    THEN CHOOSE j \in 1..(index - 1) :
            /\ list[j].role = "user"
            /\ \A k \in (j + 1)..(index - 1) : list[k].role # "user"
    ELSE 0

RemoveCountNone(list, index, n) == n

\* the while loop counting the assistant cards that follow list[index]
RECURSIVE RemoveCount(_, _, _)
RemoveCount(list, index, n) ==
    IF /\ index + n + 1 <= Len(list)
       /\ list[index + n + 1].role = "assistant"
       /\ list[index + n + 1].type = "card"
    THEN RemoveCount(list, index, n + 1)
    ELSE n

\* list.splice(index + 1, removeCount)
Splice(list, index, removeCount) ==
    SubSeq(list, 1, index) \o SubSeq(list, index + removeCount + 1, Len(list))

IdsOf(list) == [i \in 1..Len(list) |-> list[i].id]

\* the early returns: no active session, messageId not in its list, or no
\* user message before it
RegenerateReturns(messageId) ==
    \/ activeSessionId = Null
    \/ LET list == GetMessages(messagesBySession, activeSessionId)[activeSessionId]
           index == FindMessage(list, messageId)
       IN  index = 0 \/ PreviousUser(list, index) = 0

RegenerateNoopAborting(messageId) ==
    /\ RegenerateReturns(messageId)
    /\ messagesBySession' =
          IF activeSessionId = Null THEN messagesBySession
          ELSE GetMessages(messagesBySession, activeSessionId)
    /\ aborted' = AbortPrevious(abortController, aborted)
    /\ ev' = [op |-> "regenerate", messageId |-> messageId, call |-> Null]
    /\ UNCHANGED <<sessions, activeSessionId, streamingMessageId, isSending,
                   abortController, disk, calls, started,
                   sessionSeq, messageSeq, now>>

RegenerateNoop(messageId) ==
    /\ RegenerateReturns(messageId)
    /\ messagesBySession' =
          IF activeSessionId = Null THEN messagesBySession
          ELSE GetMessages(messagesBySession, activeSessionId)
    /\ ev' = [op |-> "regenerate", messageId |-> messageId, call |-> Null]
    /\ UNCHANGED <<sessions, activeSessionId, streamingMessageId, isSending,
                   abortController, aborted, disk, calls, started,
                   sessionSeq, messageSeq, now>>

\* the synchronous part, to the await of createChatCompletion
RegenerateStart(messageId, limit) ==
    /\ ~RegenerateReturns(messageId)
    /\ started < limit
    /\ LET o == started + 1
           sid == activeSessionId
           list == messagesBySession[sid]
           index == FindMessage(list, messageId)
           previousUser == list[PreviousUser(list, index)]
           removeCount == RemoveCount(list, index, 0)
           trimmed == Splice(list, index, removeCount)
           ss == IF removeCount > 0
                 THEN ReplaceMessageIds(sessions, sid, IdsOf(trimmed), now)
                 ELSE sessions
           m1 == [messagesBySession EXCEPT ![sid] = trimmed]
           m2 == ClearContent(SetMessageStatus(m1, sid, messageId, "streaming"),
                              sid, messageId)
       IN  /\ sessions' = ss
           /\ messagesBySession' = m2
           /\ IF removeCount > 0 THEN Persisting(ss, m1) ELSE UNCHANGED disk
           /\ aborted' = AbortPrevious(abortController, aborted)
           /\ abortController' = o
           /\ calls' = (o :> Frame("regenerate", "await_completion", sid, messageId))
                       @@ calls
           /\ started' = o
           /\ ev' = [op |-> "regenerate", messageId |-> messageId, call |-> o,
                     removed |-> removeCount,
                     request |-> <<[role |-> "user",
                                    content |-> previousUser.content]>>]
    /\ UNCHANGED <<activeSessionId, streamingMessageId, isSending, sessionSeq,
                   messageSeq, now>>

Regenerate(limit) == \E messageId \in 1..messageSeq : RegenerateStart(messageId, limit)

RegenerateNothing ==
    \E messageId \in 1..(messageSeq + 1) : RegenerateNoop(messageId)

(***************************************************************************)
(* deleteSession(sessionId), resetAll(), startNewSession(), setActiveSession *)
(***************************************************************************)
\* the for-of loop over list from position i on: the next message whose blob
\* deleteSession deletes (0: the loop ends)
NextFile(list, i) ==
    IF \E j \in (i + 1)..Len(list) : list[j].type = "file"
    THEN CHOOSE j \in (i + 1)..Len(list) :
            /\ list[j].type = "file"
            /\ \A k \in (i + 1)..(j - 1) : list[k].type # "file"
    ELSE 0

\* the frames of the other deleteSession calls whose list is the array the
\* store is about to drop: they keep the array
Detach(c, sids, mbs) ==
    IF /\ calls[c].kind = "deleteSession"
       /\ ~calls[c].detached
       /\ calls[c].sid \in sids
    THEN [calls[c] EXCEPT !.detached = TRUE,
                          !.list = IF calls[c].sid \in DOMAIN mbs
                                   THEN mbs[calls[c].sid] ELSE <<>>]
    ELSE calls[c]

\* lines 401-403: the session leaves the registry and the message store
DeleteFinish(sid, mbs, left, wiped) ==
    LET ss == RegistryDelete(sessions, sid)
        m == [k \in DOMAIN mbs \ {sid} |-> mbs[k]]
    IN  /\ sessions' = ss
        /\ activeSessionId' = ActiveAfterDelete(activeSessionId, sid, ss)
        /\ messagesBySession' = m
        /\ Persisting(ss, m)
        /\ calls' = [c \in left |-> Detach(c, {sid}, mbs)]
        /\ ev' = [op |-> "deleted", sid |-> sid, wiped |-> wiped,
                  outcome |-> "resolved"]
        /\ UNCHANGED <<streamingMessageId, isSending, abortController, aborted,
                       sessionSeq, messageSeq, now>>

\* the session holds no file message: the call runs to its end at once
DeleteSessionSync(sid) ==
    /\ NextFile(GetMessages(messagesBySession, sid)[sid], 0) = 0
    /\ DeleteFinish(sid, GetMessages(messagesBySession, sid), InFlight, <<>>)
    /\ UNCHANGED started

\* the synchronous part, to the await of the first blob delete
DeleteSessionStart(sid, limit) ==
    /\ NextFile(GetMessages(messagesBySession, sid)[sid], 0) # 0
    /\ started < limit
    /\ LET o == started + 1
           m == GetMessages(messagesBySession, sid)
       IN  /\ messagesBySession' = m
           /\ calls' = (o :> [Frame("deleteSession", "await_delete", sid, Null)
                                EXCEPT !.idx = NextFile(m[sid], 0),
                                       !.msgId = m[sid][NextFile(m[sid], 0)].id])
                       @@ calls
           /\ started' = o
           /\ ev' = [op |-> "deleteSession", sid |-> sid, call |-> o]
    /\ UNCHANGED <<sessions, activeSessionId, streamingMessageId, isSending,
                   abortController, aborted, disk, sessionSeq, messageSeq, now>>

DeleteSession(limit) ==
    \E i \in 1..Len(sessions) :
        DeleteSessionSync(sessions[i].id) \/ DeleteSessionStart(sessions[i].id, limit)

\* a blob delete settles, fulfilled (ok) or rejected, which is swallowed: the
\* loop goes on
DeleteSettledWith(o, ok) ==
    LET f == calls[o]
        list == IF f.detached THEN f.list ELSE messagesBySession[f.sid]
        j == NextFile(list, f.idx)
        wiped == Append(f.wiped, [id |-> f.msgId, ok |-> ok])
    IN  IF j # 0
        THEN /\ calls' = [calls EXCEPT ![o].idx = j, ![o].msgId = list[j].id,
                                       ![o].wiped = wiped]
             /\ ev' = Idle
             /\ UNCHANGED <<sessions, activeSessionId, messagesBySession,
                            streamingMessageId, isSending, abortController,
                            aborted, disk, sessionSeq, messageSeq, now>>
        ELSE DeleteFinish(f.sid, GetMessages(messagesBySession, f.sid),
                          InFlight \ {o}, wiped)

DeleteSettled(o) ==
    /\ o \in InFlight
    /\ calls[o].pc = "await_delete"
    /\ \E ok \in BOOLEAN : DeleteSettledWith(o, ok)
    /\ UNCHANGED started

ResetAll ==
    /\ sessions' = <<>>
    /\ activeSessionId' = Null
    /\ messagesBySession' = <<>>
    /\ Persisting(<<>>, <<>>)
    /\ calls' = [c \in InFlight |-> Detach(c, DOMAIN messagesBySession,
                                           messagesBySession)]
    /\ ev' = [op |-> "resetAll"]
    /\ UNCHANGED <<streamingMessageId, isSending, abortController, aborted,
                   started, sessionSeq, messageSeq, now>>

StartNewSession ==
    /\ sessionSeq < MaxSessions
    /\ LET id == sessionSeq + 1
           ss == CreateSession(sessions, <<>>, id, now)
           m == (id :> <<>>) @@ messagesBySession
       IN  /\ sessions' = ss
           /\ activeSessionId' = id
           /\ messagesBySession' = m
           /\ Persisting(ss, m)
           /\ sessionSeq' = id
           /\ ev' = [op |-> "startNewSession", sid |-> id]
    /\ UNCHANGED <<streamingMessageId, isSending, abortController, aborted,
                   calls, started, messageSeq, now>>

\* the sidebar and the router select a session of the list
SetActiveSession ==
    /\ \E i \in 1..Len(sessions) : activeSessionId' = sessions[i].id
    /\ ev' = [op |-> "setActiveSession"]
    /\ UNCHANGED <<sessions, messagesBySession, streamingMessageId, isSending,
                   abortController, aborted, disk, calls, started,
                   sessionSeq, messageSeq, now>>

(***************************************************************************)
(* Construction.  The stores are built from what localStorage holds: no    *)
(* item, or the snapshot an earlier run of the application persisted after *)
(* one file was sent and answered with a text and a card.                  *)
(***************************************************************************)
StoredChat ==
    [sessions |-> <<[id |-> 1, title |-> AutoPrefix \o <<"1">>, createdAt |-> 0,
                     updatedAt |-> 0, messageIds |-> <<1, 2, 3>>]>>,
     messages |-> (1 :> <<FileMessage(1, 1, FileA, 0),
                          TextMessage(2, 1, "assistant",
                                      <<"H", "e", "l", "l", "o">>, "sent", 0),
                          CardMessage(3, 1, CHOOSE c \in CardCatalog : TRUE, 0)>>)]

BootItems == { NoItem, SaveToStorage(StoredChat) }

StoredMessageIds(m) ==
    UNION { { m[sid][i].id : i \in 1..Len(m[sid]) } : sid \in DOMAIN m }

\* the state() of the two stores over the item, and the ids already in use
Boot(item) ==
    LET persisted == ReadInitialChatState(item)
    IN  /\ storage = item
        /\ lastSnapshot = persisted
        /\ sessions = persisted.sessions
        /\ activeSessionId = (IF persisted.sessions # <<>>
                              THEN persisted.sessions[1].id ELSE Null)
        /\ messagesBySession = persisted.messages
        /\ streamingMessageId = Null
        /\ isSending = FALSE
        /\ abortController = Null
        /\ aborted = {}
        /\ calls = <<>>
        /\ started = 0
        /\ sessionSeq = Len(persisted.sessions)
        /\ messageSeq = Cardinality(StoredMessageIds(persisted.messages))
        /\ now = 0
        /\ ev = Idle

(***************************************************************************)
(* The chat engine: every interleaving of the entry calls with the pending *)
(* requests, timers and blob operations.                                   *)
(***************************************************************************)
Init == \E item \in BootItems : Boot(item)

Next ==
    \/ SendMessage(MaxCalls)
    \/ SendFiles(MaxCalls)
    \/ Regenerate(MaxCalls)
    \/ \E o \in InFlight : CompletionResolve(o)
    \/ \E o \in InFlight : CompletionReject(o)
    \/ \E o \in InFlight : ChunkTimer(o)
    \/ \E o \in InFlight : ChunkError(o)
    \/ \E o \in InFlight : SaveSettledNext(o)
    \/ \E o \in InFlight : SaveSettledLast(o)
    \/ DeleteSession(MaxCalls)
    \/ \E o \in InFlight : DeleteSettled(o)
    \/ ResetAll
    \/ StartNewSession
    \/ SetActiveSession

Spec == Init /\ [][Next]_vars

(***************************************************************************)
(* Overlapping generations alone: sendMessage and regenerate calls and     *)
(* their requests and chunk timers.                                        *)
(***************************************************************************)
NextRace ==
    \/ SendMessage(MaxRace)
    \/ Regenerate(MaxRace)
    \/ \E o \in InFlight : CompletionResolve(o)
    \/ \E o \in InFlight : CompletionReject(o)
    \/ \E o \in InFlight : ChunkTimer(o)
    \/ \E o \in InFlight : ChunkError(o)

SpecRace == Boot(NoItem) /\ [][NextRace]_vars

(***************************************************************************)
(* Generations together with the entry calls that return at once.          *)
(***************************************************************************)
NextEntry ==
    \/ SendMessage(MaxCalls)
    \/ Regenerate(MaxCalls)
    \/ \E o \in InFlight : CompletionResolve(o)
    \/ \E o \in InFlight : CompletionReject(o)
    \/ \E o \in InFlight : ChunkTimer(o)
    \/ \E o \in InFlight : ChunkError(o)
    \/ SendMessageNoop
    \/ SendFilesEmpty
    \/ RegenerateNothing

SpecEntry == Init /\ [][NextEntry]_vars

(***************************************************************************)
(* The chatSessions store alone: its actions called directly.              *)
(***************************************************************************)
chatIdle == <<messagesBySession, streamingMessageId, isSending,
              abortController, aborted, disk, calls, started, messageSeq>>

\* the titles a caller passes to createSession and renameSession; <<>> stands
\* for no title
TitleInputs ==
    { <<>>, <<" ">>, <<"x">>, AutoPrefix \o <<"0", "1">>, AutoPrefix \o <<"3">> }

MessageIdInputs == {1, 2}

DoCreateSession(titles, limit) ==
    /\ sessionSeq < limit
    /\ \E title \in titles :
          /\ sessions' = CreateSession(sessions, title, sessionSeq + 1, now)
          /\ ev' = [op |-> "createSession", title |-> title, sid |-> sessionSeq + 1]
    /\ activeSessionId' = sessionSeq + 1
    /\ sessionSeq' = sessionSeq + 1
    /\ UNCHANGED <<chatIdle, now>>

DoRenameSession ==
    /\ \E id \in 1..sessionSeq, title \in TitleInputs \ {<<>>} :
          /\ sessions' = RenameSession(sessions, id, title, now)
          /\ ev' = [op |-> "renameSession", sid |-> id, title |-> title]
    /\ UNCHANGED <<chatIdle, activeSessionId, sessionSeq, now>>

DoDeleteSession ==
    /\ \E id \in 1..sessionSeq :
          /\ sessions' = RegistryDelete(sessions, id)
          /\ activeSessionId' =
                ActiveAfterDelete(activeSessionId, id, RegistryDelete(sessions, id))
          /\ ev' = [op |-> "deleteSession", sid |-> id, active |-> activeSessionId]
    /\ UNCHANGED <<chatIdle, sessionSeq, now>>

DoTouchSession ==
    /\ \E id \in 1..sessionSeq :
          /\ sessions' = TouchSession(sessions, id, now)
          /\ ev' = [op |-> "touchSession", sid |-> id]
    /\ UNCHANGED <<chatIdle, activeSessionId, sessionSeq, now>>

DoAppendMessageId ==
    /\ \E id \in 1..sessionSeq, messageId \in MessageIdInputs :
          /\ sessions' = AppendMessageId(sessions, id, messageId, now)
          /\ ev' = [op |-> "appendMessageId", sid |-> id, messageId |-> messageId]
    /\ UNCHANGED <<chatIdle, activeSessionId, sessionSeq, now>>

DoReplaceMessageIds ==
    /\ \E id \in 1..sessionSeq, messageIds \in { <<>>, <<2, 1>> } :
          /\ sessions' = ReplaceMessageIds(sessions, id, messageIds, now)
          /\ ev' = [op |-> "replaceMessageIds", sid |-> id,
                    messageIds |-> messageIds]
    /\ UNCHANGED <<chatIdle, activeSessionId, sessionSeq, now>>

DoSetActiveSession ==
    /\ \E id \in 0..sessionSeq :
          /\ activeSessionId' = id
          /\ ev' = [op |-> "setActiveSession", sid |-> id]
    /\ UNCHANGED <<chatIdle, sessions, sessionSeq, now>>

\* time passes between two calls
Tick ==
    /\ now < MaxClock
    /\ now' = now + 1
    /\ ev' = Idle
    /\ UNCHANGED <<chatIdle, sessions, activeSessionId, sessionSeq>>

NextSessions ==
    \/ DoCreateSession({<<>>}, MaxSessions)
    \/ DoDeleteSession
    \/ DoTouchSession
    \/ DoAppendMessageId
    \/ DoReplaceMessageIds
    \/ DoSetActiveSession
    \/ Tick

SpecSessions == Boot(NoItem) /\ [][NextSessions]_vars

(***************************************************************************)
(* The chatSessions store alone: the titles of its sessions.               *)
(***************************************************************************)
NextTitles ==
    \/ DoCreateSession(TitleInputs, MaxTitled)
    \/ DoRenameSession
    \/ DoDeleteSession

SpecTitles == Boot(NoItem) /\ [][NextTitles]_vars

(***************************************************************************)
(* localStorage.setItem raising (the quota is exceeded): saveToStorage has *)
(* no try block and neither has persist(), so the exception leaves the     *)
(* handler at the persist() call it reached.                               *)
(***************************************************************************)
SaveRaises == "QuotaExceededError"

SaveFailed(entry) == [op |-> "saveFailed", entry |-> entry, thrown |-> SaveRaises]

\* sendMessage(content) whose first persist() raises: the one of
\* startNewSession (line 54) when ensureSession makes the session, else the
\* one of line 110, before the try block
SendMessageQuota(text, limit) ==
    /\ Trim(text) # <<>>
    /\ started < limit
    /\ activeSessionId = Null => sessionSeq < MaxSessions
    /\ LET sid == EnsureId
           userMessage ==
               TextMessage(messageSeq + 1, sid, "user", Trim(text), "sent", now)
           placeholder ==
               TextMessage(messageSeq + 2, sid, "assistant", <<>>, "streaming", now)
           w1 == AppendMessage(EnsureStore, sid, userMessage, now)
           w2 == AppendMessage(w1, sid, placeholder, now)
       IN  IF activeSessionId = Null
           THEN /\ sessions' = EnsureStore.ss
                /\ messagesBySession' = EnsureStore.mbs
                /\ UNCHANGED <<streamingMessageId, isSending, messageSeq>>
           ELSE /\ sessions' = w2.ss
                /\ messagesBySession' = w2.mbs
                /\ streamingMessageId' = placeholder.id
                /\ isSending' = TRUE
                /\ messageSeq' = messageSeq + 2
    /\ activeSessionId' = EnsureId
    /\ sessionSeq' = EnsureSeq
    /\ started' = started + 1
    /\ ev' = SaveFailed("sendMessage")
    /\ UNCHANGED <<abortController, aborted, disk, calls, now>>

\* startNewSession() whose persist() raises
StartNewSessionQuota ==
    /\ sessionSeq < MaxSessions
    /\ LET id == sessionSeq + 1
       IN  /\ sessions' = CreateSession(sessions, <<>>, id, now)
           /\ activeSessionId' = id
           /\ messagesBySession' = (id :> <<>>) @@ messagesBySession
           /\ sessionSeq' = id
    /\ ev' = SaveFailed("startNewSession")
    /\ UNCHANGED <<streamingMessageId, isSending, abortController, aborted,
                   disk, calls, started, messageSeq, now>>

\* resetAll() whose persist() raises after clearStorage() removed the item
ResetAllQuota ==
    /\ sessions' = <<>>
    /\ activeSessionId' = Null
    /\ messagesBySession' = <<>>
    /\ storage' = NoItem
    /\ lastSnapshot' = DefaultState
    /\ calls' = [c \in InFlight |-> Detach(c, DOMAIN messagesBySession,
                                           messagesBySession)]
    /\ ev' = SaveFailed("resetAll")
    /\ UNCHANGED <<streamingMessageId, isSending, abortController, aborted,
                   started, sessionSeq, messageSeq, now>>

NextQuota ==
    \/ Next
    \/ \E text \in TextInputs : SendMessageQuota(text, MaxCalls)
    \/ StartNewSessionQuota
    \/ ResetAllQuota

SpecQuota == Init /\ [][NextQuota]_vars

(***************************************************************************)
(* The chat store over a long conversation: the snapshot an earlier run    *)
(* persisted holds nine text messages that are not streaming, one of them  *)
(* failed, with a file message and a card among them.                      *)
(***************************************************************************)
LongChat ==
    [sessions |-> <<[id |-> 1, title |-> AutoPrefix \o <<"1">>, createdAt |-> 0,
                     updatedAt |-> 0,
                     messageIds |-> <<1, 2, 3, 4, 5, 6, 7, 8, 9, 10, 11>>]>>,
     messages |-> (1 :> <<TextMessage(1, 1, "user", <<"q1">>, "sent", 0),
                          TextMessage(2, 1, "assistant", <<"r1">>, "sent", 0),
                          FileMessage(3, 1, FileA, 0),
                          TextMessage(4, 1, "assistant", <<"r2">>, "error", 0),
                          CardMessage(5, 1, CHOOSE c \in CardCatalog : TRUE, 0),
                          TextMessage(6, 1, "user", <<"q3">>, "sent", 0),
                          TextMessage(7, 1, "assistant", <<"r3">>, "sent", 0),
                          TextMessage(8, 1, "user", <<"q4">>, "sent", 0),
                          TextMessage(9, 1, "assistant", <<"r4">>, "sent", 0),
                          TextMessage(10, 1, "user", <<"q5">>, "sent", 0),
                          TextMessage(11, 1, "assistant", <<"r5">>, "sent", 0)>>)]

NextContext ==
    \/ SendMessage(MaxCalls)
    \/ SendFiles(MaxCalls)
    \/ Regenerate(MaxCalls)
    \/ \E o \in InFlight : CompletionResolve(o)
    \/ \E o \in InFlight : CompletionReject(o)
    \/ \E o \in InFlight : ChunkTimer(o)
    \/ \E o \in InFlight : ChunkError(o)
    \/ \E o \in InFlight : SaveSettledNext(o)
    \/ \E o \in InFlight : SaveSettledLast(o)

SpecContext == Boot(SaveToStorage(LongChat)) /\ [][NextContext]_vars

(***************************************************************************)
(* The streaming writer under cancellation: one generation more than Spec  *)
(* runs, so that a writer can see its own signal aborted.                  *)
(***************************************************************************)
NextWriter ==
    \/ SendMessage(MaxCalls + 1)
    \/ Regenerate(MaxCalls + 1)
    \/ \E o \in InFlight : CompletionResolve(o)
    \/ \E o \in InFlight : CompletionReject(o)
    \/ \E o \in InFlight : ChunkTimer(o)
    \/ \E o \in InFlight : ChunkError(o)

SpecWriter == Boot(NoItem) /\ [][NextWriter]_vars

(***************************************************************************)
(* Sending alone: messages and file batches with their replies, new        *)
(* sessions, the choice of a session and the reset, from an empty store.   *)
(***************************************************************************)
NextSend ==
    \/ SendMessage(MaxCalls)
    \/ SendFiles(MaxCalls)
    \/ \E o \in InFlight : CompletionResolve(o)
    \/ \E o \in InFlight : CompletionReject(o)
    \/ \E o \in InFlight : ChunkTimer(o)
    \/ \E o \in InFlight : ChunkError(o)
    \/ \E o \in InFlight : SaveSettledNext(o)
    \/ \E o \in InFlight : SaveSettledLast(o)
    \/ ResetAll
    \/ StartNewSession
    \/ SetActiveSession

SpecSend == Boot(NoItem) /\ [][NextSend]_vars

(***************************************************************************)
(* Sends and their replies together with session deletes, one call more    *)
(* than Spec runs: a session leaves the list only through deleteSession.   *)
(***************************************************************************)
NextCascade ==
    \/ SendMessage(MaxCalls + 1)
    \/ \E o \in InFlight : CompletionResolve(o)
    \/ \E o \in InFlight : CompletionReject(o)
    \/ \E o \in InFlight : ChunkTimer(o)
    \/ \E o \in InFlight : ChunkError(o)
    \/ DeleteSession(MaxCalls + 1)
    \/ \E o \in InFlight : DeleteSettled(o)

SpecCascade == Init /\ [][NextCascade]_vars

(***************************************************************************)
(* Reloading the page.  The calls in flight end with the page; the modules *)
(* are evaluated again, and the state() of the two stores is built from    *)
(* what localStorage holds.  The ids nanoid makes stay distinct from those *)
(* of the page before.                                                     *)
(***************************************************************************)
Reload ==
    LET persisted == ReadInitialChatState(storage)
    IN  /\ sessions' = persisted.sessions
        /\ activeSessionId' = (IF persisted.sessions # <<>>
                               THEN persisted.sessions[1].id ELSE Null)
        /\ messagesBySession' = persisted.messages
        /\ streamingMessageId' = Null
        /\ isSending' = FALSE
        /\ abortController' = Null
        /\ aborted' = {}
        /\ calls' = <<>>
        /\ ev' = [op |-> "reload"]
        /\ UNCHANGED <<disk, started, sessionSeq, messageSeq, now>>

NextReload ==
    \/ SendMessage(MaxCalls)
    \/ SendFiles(MaxCalls)
    \/ Regenerate(MaxCalls)
    \/ \E o \in InFlight : CompletionResolve(o)
    \/ \E o \in InFlight : CompletionReject(o)
    \/ \E o \in InFlight : ChunkTimer(o)
    \/ \E o \in InFlight : ChunkError(o)
    \/ \E o \in InFlight : SaveSettledNext(o)
    \/ \E o \in InFlight : SaveSettledLast(o)
    \/ Reload

SpecReload == Init /\ [][NextReload]_vars

(***************************************************************************)
(* File batches, regenerations and session deletes overlapping, while the  *)
(* completion requests stay pending.                                       *)
(***************************************************************************)
NextDelete ==
    \/ SendFiles(MaxRace)
    \/ \E o \in InFlight : SaveSettledNext(o)
    \/ \E o \in InFlight : SaveSettledLast(o)
    \/ Regenerate(MaxRace)
    \/ DeleteSession(MaxRace)
    \/ \E o \in InFlight : DeleteSettled(o)

SpecDelete == Init /\ [][NextDelete]_vars

(***************************************************************************)
(* Loading.  The item under the storage key is whatever the origin's       *)
(* localStorage holds: besides the snapshots persist() writes, a text that *)
(* another script, another version of the application or the user left     *)
(* there.  Sessions and generations run alongside.                         *)
(***************************************************************************)
ForeignItems ==
    { NotJson, JsonStringify(JsonNull), JsonStringify([version |-> StorageVersion]) }

\* something else writes the item
Tamper ==
    /\ \E item \in ForeignItems : storage' = item
    /\ ev' = [op |-> "tamper"]
    /\ UNCHANGED <<sessions, activeSessionId, messagesBySession,
                   streamingMessageId, isSending, abortController, aborted,
                   lastSnapshot, calls, started, sessionSeq, messageSeq, now>>

\* readInitialChatState() is called
ReadState ==
    /\ ev' = [op |-> "readInitialChatState", item |-> storage,
              result |-> ReadInitialChatState(storage)]
    /\ UNCHANGED <<sessions, activeSessionId, messagesBySession,
                   streamingMessageId, isSending, abortController, aborted,
                   disk, calls, started, sessionSeq, messageSeq, now>>

NextLoad ==
    \/ SendMessage(MaxCalls)
    \/ \E o \in InFlight : CompletionResolve(o)
    \/ \E o \in InFlight : CompletionReject(o)
    \/ \E o \in InFlight : ChunkTimer(o)
    \/ \E o \in InFlight : ChunkError(o)
    \/ StartNewSession
    \/ ResetAll
    \/ Tamper
    \/ ReadState

SpecLoad == Init /\ [][NextLoad]_vars

(***************************************************************************)
(* Properties.  What the store holds for a message, and what a reload      *)
(* would read back.                                                        *)
(***************************************************************************)
MessagesOf(sid) ==
    IF sid \in DOMAIN messagesBySession THEN messagesBySession[sid] ELSE <<>>

HasMessage(list, mid) == \E i \in 1..Len(list) : list[i].id = mid

MessageIn(list, mid) == list[CHOOSE i \in 1..Len(list) : list[i].id = mid]

StreamingMessages ==
    { <<sid, i>> \in (DOMAIN messagesBySession) \X (1..(messageSeq + 1)) :
         /\ i <= Len(messagesBySession[sid])
         /\ messagesBySession[sid][i].status = "streaming" }

StoreSnapshot == [sessions |-> sessions, messages |-> messagesBySession]

Reloaded == ReadInitialChatState(storage)

IsBlank(text) == \A i \in 1..Len(text) : text[i] \in Whitespace

SendMessageSettled == ev.op = "settled" /\ ev.kind = "sendMessage"

SendFilesSettled == ev.op = "settled" /\ ev.kind = "sendFiles"

\* C1: in every reachable state at most one message across all sessions has
\* status streaming.
AtMostOneStreaming == Cardinality(StreamingMessages) <= 1

\* C2: a sendMessage that was in flight when sendMessage was called again
\* leaves its placeholder with status error, and a sendMessage whose own
\* request and chunk stream succeed resolves without throwing.
SupersededSendEndsInError ==
    SendMessageSettled =>
        /\ ev.resent =>
              /\ HasMessage(MessagesOf(ev.sid), ev.target)
              /\ MessageIn(MessagesOf(ev.sid), ev.target).status = "error"
        /\ ev.raised = "none" => ev.outcome = "resolved"

\* C3: a sendMessage whose controller was aborted by a newer generation, and
\* whose request and chunk stream raise no error of their own, rejects with
\* an AbortError after setting its placeholder to error, clearing
\* streamingMessageId and persisting.
CancelledSendRejectsWithAbortError ==
    (SendMessageSettled /\ ev.cancelled /\ ev.raised = "none") =>
        /\ ev.outcome = "rejected"
        /\ ev.thrown = "AbortError"
        /\ HasMessage(MessagesOf(ev.sid), ev.target)
        /\ MessageIn(MessagesOf(ev.sid), ev.target).status = "error"
        /\ streamingMessageId = Null
        /\ Reloaded = StoreSnapshot

\* C4: right after the synchronous part of sendMessage(text) with non-blank
\* text the active session ends with the sent user message holding the
\* trimmed text and the empty streaming placeholder; and a sendMessage whose
\* response arrived, whose controller was never aborted and whose chunk
\* stream raised no error resolves with its placeholder sent and holding
\* exactly the response's content.
SendDeliversResponse ==
    /\ (ev.op = "sendMessage" /\ ev.call # Null) =>
          LET list == MessagesOf(activeSessionId)
              n == Len(list)
          IN  /\ n >= 2
              /\ list[n - 1].role = "user" /\ list[n - 1].type = "text"
              /\ list[n - 1].status = "sent"
              /\ ~IsBlank(list[n - 1].content)
              /\ list[n - 1].content = TrimEnd(TrimStart(ev.text))
              /\ list[n].role = "assistant" /\ list[n].type = "text"
              /\ list[n].status = "streaming"
              /\ list[n].content = <<>>
    /\ (SendMessageSettled /\ ev.raised = "none" /\ ~ev.cancelled) =>
          /\ ev.outcome = "resolved"
          /\ HasMessage(MessagesOf(ev.sid), ev.target)
          /\ MessageIn(MessagesOf(ev.sid), ev.target).status = "sent"
          /\ MessageIn(MessagesOf(ev.sid), ev.target).content = ev.content

\* C5: when the completion request or the chunk stream of a sendMessage
\* raises an error, the call rejects with that same error, and by then the
\* placeholder (of a session that still exists) has status error,
\* streamingMessageId is null, isSending is false and localStorage holds the
\* stores' state.
FailedSendMarksErrorAndRethrows ==
    (SendMessageSettled /\ ev.raised # "none") =>
        /\ ev.outcome = "rejected"
        /\ ev.thrown = ev.raised
        /\ streamingMessageId = Null
        /\ isSending = FALSE
        /\ Reloaded = StoreSnapshot
        /\ HasSession(sessions, ev.sid) =>
              /\ HasMessage(MessagesOf(ev.sid), ev.target)
              /\ MessageIn(MessagesOf(ev.sid), ev.target).status = "error"

\* a sendMessage failed after its first chunk: the placeholder keeps the chunk
FailedSendReached ==
    /\ SendMessageSettled
    /\ ev.raised = "StreamError"
    /\ HasSession(sessions, ev.sid)
    /\ HasMessage(MessagesOf(ev.sid), ev.target)
    /\ MessageIn(MessagesOf(ev.sid), ev.target).content # <<>>

\* C6: when the completion request or the chunk stream of sendFiles raises
\* an error, sendFiles resolves, and (in a session that still exists) the
\* placeholder has status error and every file of the batch has its file
\* message in the session and in the snapshot localStorage holds.
FailedReplyKeepsFileMessages ==
    (SendFilesSettled /\ ev.raised # "none") =>
        /\ ev.outcome = "resolved"
        /\ ev.thrown = "none"
        /\ HasSession(sessions, ev.sid) =>
              /\ HasMessage(MessagesOf(ev.sid), ev.target)
              /\ MessageIn(MessagesOf(ev.sid), ev.target).status = "error"
              /\ Len(ev.made) = Len(ev.files)
              /\ ev.sid \in DOMAIN Reloaded.messages
              /\ \A k \in 1..Len(ev.made) :
                    /\ HasMessage(MessagesOf(ev.sid), ev.made[k])
                    /\ MessageIn(MessagesOf(ev.sid), ev.made[k]).type = "file"
                    /\ HasMessage(Reloaded.messages[ev.sid], ev.made[k])
                    /\ MessageIn(Reloaded.messages[ev.sid], ev.made[k]).type = "file"

\* the reply to a batch of two files failed in its chunk stream
FailedReplyReached ==
    /\ SendFilesSettled
    /\ ev.raised = "StreamError"
    /\ HasSession(sessions, ev.sid)
    /\ Len(ev.made) = 2
    /\ Len(MessagesOf(ev.sid)) >= 3

\* C7: a sendMessage call whose text is empty or all whitespace changes
\* nothing: sessions, active session, messages, streamingMessageId,
\* isSending, the controller and the aborted signals, localStorage and the
\* calls in flight stay as they are.
BlankSendChangesNothing ==
    [][(ev'.op = "sendMessage" /\ IsBlank(ev'.text)) =>
          UNCHANGED <<sessions, activeSessionId, messagesBySession,
                      streamingMessageId, isSending, abortController, aborted,
                      storage, lastSnapshot, calls, sessionSeq, messageSeq>>]_vars

\* a whitespace-only sendMessage returned while a generation was in flight
\* with its signal not aborted
BlankSendReached ==
    /\ ev.op = "sendMessage"
    /\ ev.text = <<" ">>
    /\ ev.call = Null
    /\ abortController \in InFlight
    /\ abortController \notin aborted
    /\ isSending

\* C8: appendMessageId(sessionId, messageId) on an existing session leaves
\* the sessions as they are when messageId is already among the session's
\* messageIds, and otherwise appends it at the end and sets updatedAt to now.
AppendMessageIdIsIdempotent ==
    [][ev'.op = "appendMessageId" =>
          LET i == FindSession(sessions, ev'.sid)
          IN  i # 0 =>
                IF \E k \in 1..Len(sessions[i].messageIds) :
                      sessions[i].messageIds[k] = ev'.messageId
                THEN sessions' = sessions
                ELSE /\ sessions'[i].messageIds =
                           sessions[i].messageIds \o <<ev'.messageId>>
                     /\ sessions'[i].updatedAt = now
                     /\ Len(sessions') = Len(sessions)
                     /\ \A j \in 1..Len(sessions) : j # i => sessions'[j] = sessions[j]
                     /\ sessions'[i].id = sessions[i].id
                     /\ sessions'[i].title = sessions[i].title
                     /\ sessions'[i].createdAt = sessions[i].createdAt]_vars

\* appendMessageId was called with an id the session already held, after the
\* clock had moved on: updatedAt stays behind the clock
RepeatedAppendReached ==
    /\ ev.op = "appendMessageId"
    /\ \E i \in 1..Len(sessions) :
          /\ sessions[i].id = ev.sid
          /\ \E k \in 1..Len(sessions[i].messageIds) :
                sessions[i].messageIds[k] = ev.messageId
          /\ sessions[i].updatedAt < now

TitlesInUse(ss) == { ss[i].title : i \in 1..Len(ss) }

AutoTitle(n) == AutoPrefix \o DecimalString(n)

\* the smallest positive N whose auto title no session of ss carries
SmallestFree(ss) ==
    CHOOSE n \in 1..(Len(ss) + 1) :
        /\ AutoTitle(n) \notin TitlesInUse(ss)
        /\ \A m \in 1..(n - 1) : AutoTitle(m) \in TitlesInUse(ss)

\* C9: createSession without a title gives the new session the auto title
\* with the smallest positive number whose auto title is not in use.
AutoTitleIsSmallestFree ==
    [][(ev'.op = "createSession" /\ ev'.title = <<>>) =>
          sessions'[1].title = AutoTitle(SmallestFree(sessions))]_vars

IsSnapshotItem(item) ==
    /\ item.kind = "json"
    /\ "data" \in DOMAIN item.value
    /\ {"sessions", "messages"} \subseteq DOMAIN item.value.data

\* C11: readInitialChatState returns the empty state whenever the item is
\* absent or does not hold a snapshot.
LoadFallsBackToEmpty ==
    (ev.op = "readInitialChatState" /\ ~IsSnapshotItem(ev.item)) =>
        ev.result = [sessions |-> <<>>, messages |-> <<>>]

IsCard(msg) == msg.role = "assistant" /\ msg.type = "card"

\* how many assistant cards follow position i of list without a gap
CardsAfter(list, i) ==
    CHOOSE k \in 0..(Len(list) - i) :
        /\ \A j \in (i + 1)..(i + k) : IsCard(list[j])
        /\ (i + k + 1 <= Len(list) => ~IsCard(list[i + k + 1]))

PositionOf(list, mid) == CHOOSE i \in 1..Len(list) : list[i].id = mid

\* C12: the synchronous part of regenerateAssistantMessage(messageId), which
\* ends with the completion request pending, removes from the active
\* session's list exactly the k cards that follow the target without a gap,
\* leaves the messages at the other positions in place, makes messageIds of
\* the session k shorter and equal to the ids of the list, and when k > 0
\* localStorage holds the trimmed list and the sessions.
RegenerateTrimsTrailingCards ==
    [][(ev'.op = "regenerate" /\ ev'.call # Null) =>
          LET sid == activeSessionId
              list == messagesBySession[sid]
              after == messagesBySession'[sid]
              i == PositionOf(list, ev'.messageId)
              k == CardsAfter(list, i)
              s == FindSession(sessions, sid)
          IN  /\ Len(after) = Len(list) - k
              /\ \A j \in 1..(i - 1) : after[j] = list[j]
              /\ after[i].id = list[i].id
              /\ \A j \in (i + k + 1)..Len(list) : after[j - k] = list[j]
              /\ calls'[ev'.call].pc = "await_completion"
              /\ s # 0 =>
                    /\ Len(sessions'[s].messageIds) =
                          Len(sessions[s].messageIds) - k
                    /\ sessions'[s].messageIds =
                          [j \in 1..Len(after) |-> after[j].id]
              /\ k > 0 =>
                    /\ Reloaded'.sessions = sessions'
                    /\ sid \in DOMAIN Reloaded'.messages
                    /\ [j \in 1..Len(Reloaded'.messages[sid]) |->
                           Reloaded'.messages[sid][j].id]
                         = [j \in 1..Len(after) |-> after[j].id]]_vars

\* a regeneration has just removed a card and waits for its response
RegenerateTrimReached ==
    /\ ev.op = "regenerate"
    /\ ev.call # Null
    /\ ev.removed >= 1
    /\ ev.call \in InFlight
    /\ Len(Reloaded.messages[activeSessionId]) = Len(MessagesOf(activeSessionId))

\* call o of regenerateAssistantMessage starts, runs or ends in this step
RegenerateSteps(o) ==
    \/ o \notin DOMAIN calls /\ o \in DOMAIN calls'
         /\ calls'[o].kind = "regenerate"
    \/ o \in DOMAIN calls /\ calls[o].kind = "regenerate"
         /\ (o \notin DOMAIN calls' \/ calls'[o] # calls[o])

RegenerateFrame(o) == IF o \in DOMAIN calls THEN calls[o] ELSE calls'[o]

\* C13: no step of a regenerateAssistantMessage call, from its start to its
\* end, changes a message positioned before its target: the nearest user
\* message before the target and every message before that one keep all
\* their fields.
RegenerateLeavesEarlierMessages ==
    [][\A o \in 1..(started + 1) :
          RegenerateSteps(o) =>
             LET f == RegenerateFrame(o)
                 list == MessagesOf(f.sid)
             IN  HasMessage(list, f.target) =>
                    /\ f.sid \in DOMAIN messagesBySession'
                    /\ \A j \in 1..(PositionOf(list, f.target) - 1) :
                          /\ j <= Len(messagesBySession'[f.sid])
                          /\ messagesBySession'[f.sid][j] = list[j]]_vars

\* a regeneration has finished with the new response in its target and a
\* user message before it
RegenerateFinishedReached ==
    /\ ev.op = "settled"
    /\ ev.kind = "regenerate"
    /\ ev.raised = "none"
    /\ HasMessage(MessagesOf(ev.sid), ev.target)
    /\ MessageIn(MessagesOf(ev.sid), ev.target).content = ev.content
    /\ ev.content # <<>>
    /\ PositionOf(MessagesOf(ev.sid), ev.target) >= 2
    /\ MessagesOf(ev.sid)[PositionOf(MessagesOf(ev.sid), ev.target) - 1].role = "user"
    /\ MessagesOf(ev.sid)[PositionOf(MessagesOf(ev.sid), ev.target) - 1].content # <<>>

\* C14: when deleteSession(id) completes the session is in no list and the
\* message store holds nothing under id, the call resolves, and a blob
\* delete was awaited, whatever its outcome, for every file message the
\* session held.
DeleteRemovesSessionAndBlobs ==
    [][ev'.op = "deleted" =>
          /\ ~HasSession(sessions', ev'.sid)
          /\ ev'.sid \notin DOMAIN messagesBySession'
          /\ ev'.outcome = "resolved"
          /\ \A j \in 1..Len(MessagesOf(ev'.sid)) :
                MessagesOf(ev'.sid)[j].type = "file" =>
                   \E k \in 1..Len(ev'.wiped) :
                      ev'.wiped[k].id = MessagesOf(ev'.sid)[j].id]_vars

\* C15: deleteSession(id) of the session store moves the active pointer to
\* the first session left in the list, or to none when the list is empty,
\* if id was the active session; otherwise the pointer keeps its value.
DeleteMovesActivePointer ==
    ev.op = "deleteSession" =>
        IF ev.active = ev.sid
        THEN IF sessions = <<>>
             THEN activeSessionId = Null
             ELSE activeSessionId = sessions[1].id
        ELSE activeSessionId = ev.active

DeleteOfActiveReached ==
    /\ ev.op = "deleteSession"
    /\ ev.active = ev.sid
    /\ Len(sessions) >= 1
    /\ activeSessionId = sessions[1].id

\* the state resetAll is to leave, read generously: no session, no active
\* session, no message in any list of the store, and a snapshot that loads
\* with no session and no message (a key with an empty list passes)
NoMessageIn(mbs) == \A sid \in DOMAIN mbs : mbs[sid] = <<>>

EmptyEverywhere ==
    /\ sessions = <<>>
    /\ activeSessionId = Null
    /\ NoMessageIn(messagesBySession)
    /\ Reloaded.sessions = <<>>
    /\ NoMessageIn(Reloaded.messages)

\* the tasks that continue a call started earlier
ContinuationOps == { "settled", "task", "sendFilesStage", "blobFailed" }

\* C16: resetAll leaves the session list, the message store and the active
\* pointer empty and a snapshot that loads as the empty state, and the task
\* of a call that was in flight at the reset, run right after it, leaves
\* all of that as it is.
ResetLeavesEmptyState ==
    [][/\ ev'.op = "resetAll" => EmptyEverywhere'
       /\ (ev.op = "resetAll" /\ ev'.op \in ContinuationOps) => EmptyEverywhere']_vars

\* a generation of call ev.call has just appended its card
CardAppended ==
    /\ ev.op = "settled"
    /\ ev.raised = "none"
    /\ ev.card # NoCard
    /\ HasSession(sessions, ev.sid)

\* C17: a card appended by sendMessage, sendFiles or
\* regenerateAssistantMessage follows the assistant text message whose
\* generation produced it, with nothing but cards between the two, under any
\* interleaving of those operations.
CardFollowsItsText ==
    CardAppended =>
        LET list == MessagesOf(ev.sid)
            p == FindMessage(list, ev.target)
        IN  /\ p # 0
            /\ list[p].role = "assistant" /\ list[p].type = "text"
            /\ Len(list) > p
            /\ \A j \in (p + 1)..Len(list) : IsCard(list[j])

IsPrefix(a, b) == Len(a) <= Len(b) /\ SubSeq(b, 1, Len(a)) = a

NoDuplicates(ids) ==
    \A i \in 1..Len(ids) : \A j \in 1..Len(ids) : ids[i] = ids[j] => i = j

\* messageIds of every session of the list is the ids of its messages
MessageIdsMatchStore ==
    \A i \in 1..Len(sessions) :
        /\ sessions[i].messageIds =
              [j \in 1..Len(MessagesOf(sessions[i].id)) |-> MessagesOf(sessions[i].id)[j].id]
        /\ NoDuplicates(sessions[i].messageIds)

\* after is before without the run of k >= 1 cards of list that starts at i + 1
CardRunRemoved(before, after, list) ==
    \E i \in 1..Len(before) : \E k \in 1..(Len(before) - i) :
        /\ after = SubSeq(before, 1, i) \o SubSeq(before, i + k + 1, Len(before))
        /\ Len(list) = Len(before)
        /\ \A j \in (i + 1)..(i + k) : IsCard(list[j])

\* a step changes messageIds of a session it keeps by an append at the end or,
\* in regenerateAssistantMessage, by removing a run of cards
MessageIdsStep ==
    \A i \in 1..Len(sessions) : \A j \in 1..Len(sessions') :
        sessions[i].id = sessions'[j].id =>
            \/ IsPrefix(sessions[i].messageIds, sessions'[j].messageIds)
            \/ /\ ev'.op = "regenerate"
               /\ CardRunRemoved(sessions[i].messageIds, sessions'[j].messageIds,
                                 MessagesOf(sessions[i].id))

\* C18: in every reachable state messageIds of every session of the list is
\* the sequence of the ids of the session's messages in the store, in order
\* and without duplicates, and a step changes it only by appending at the
\* end or by removing a contiguous run of cards in a regeneration.
MessageIdsFollowStore == []MessageIdsMatchStore /\ [][MessageIdsStep]_vars

RegenerateTrimmedIdsReached ==
    /\ ev.op = "regenerate"
    /\ ev.removed > 0
    /\ HasSession(sessions, activeSessionId)
    /\ Len(MessagesOf(activeSessionId)) >= 2
    /\ MessageIdsMatchStore

\* every message a step keeps has its content extended or reset to empty
ContentStep ==
    \A sid \in (DOMAIN messagesBySession) \cap (DOMAIN messagesBySession') :
        \A i \in 1..Len(messagesBySession[sid]) :
            \A j \in 1..Len(messagesBySession'[sid]) :
                messagesBySession[sid][i].id = messagesBySession'[sid][j].id =>
                    \/ IsPrefix(messagesBySession[sid][i].content,
                                messagesBySession'[sid][j].content)
                    \/ messagesBySession'[sid][j].content = <<>>

\* the message every call that streams a response writes holds a prefix of
\* that response
WritersHoldPrefix ==
    \A o \in InFlight :
        (calls[o].pc = "await_chunk" /\ HasMessage(MessagesOf(calls[o].sid), calls[o].target)) =>
            IsPrefix(MessageIn(MessagesOf(calls[o].sid), calls[o].target).content,
                     calls[o].content)

\* C19: between two resets of a message's content every change appends to
\* it, and while a generation with response C writes the message its content
\* is a prefix of C.
ContentOnlyGrows == [][ContentStep]_vars /\ []WritersHoldPrefix

\* C20: localStorage raising on the snapshot write is not thrown to the
\* caller of an entry operation, and it leaves neither isSending true nor a
\* message in status streaming once no call is in flight.
SaveFailureIsSwallowed ==
    ev.op = "saveFailed" =>
        /\ ev.thrown = "none"
        /\ InFlight = {} => (~isSending /\ StreamingMessages = {})

\* C21: whenever no call of the chat store is in progress, the snapshot in
\* localStorage loads as the sessions and messages the stores hold.
QuiescentSnapshotMatchesStore ==
    InFlight = {} => Reloaded = StoreSnapshot

GenerationSettledReached ==
    /\ ev.op = "settled"
    /\ InFlight = {}
    /\ HasSession(sessions, ev.sid)
    /\ Len(MessagesOf(ev.sid)) >= 2
    /\ Reloaded = StoreSnapshot

\* the calls that hold a token of their own: they made their AbortController
\* and wait for the completion or for a chunk
Generating == { c \in InFlight : calls[c].pc \in {"await_completion", "await_chunk"} }

\* the task that has just run made a new AbortController for call ev.call
GenerationStarted ==
    /\ ev.op \in {"sendMessage", "regenerate", "sendFilesStage"}
    /\ ev.call # Null

\* C22: a step that starts a generation leaves the token of every generation
\* in flight before it aborted, whatever calls started and finished earlier.
NewGenerationCancelsOthers ==
    [][GenerationStarted' => \A c \in Generating : c # ev'.call => c \in aborted']_vars

\* call a, started before the regeneration b of the same message, is the
\* writer whose chunk timer fires in this step and lands a chunk on it
EarlierWriterAppends(a, b) ==
    /\ a < b
    /\ calls[b].kind = "regenerate"
    /\ calls[a].sid = calls[b].sid
    /\ calls[a].target = calls[b].target
    /\ calls[a].pc = "await_chunk"
    /\ a \notin DOMAIN calls' \/ calls'[a].cursor # calls[a].cursor
    /\ HasMessage(MessagesOf(calls[a].sid), calls[a].target)
    /\ HasMessage(MessagesOf(calls[a].sid)', calls[a].target)
    /\ MessageIn(MessagesOf(calls[a].sid)', calls[a].target).content #
          MessageIn(MessagesOf(calls[a].sid), calls[a].target).content

\* a regeneration that was not cancelled has run to its end without an error
RegenerationDelivered ==
    /\ ev.op = "settled"
    /\ ev.kind = "regenerate"
    /\ ev.raised = "none"
    /\ ~ev.cancelled
    /\ HasMessage(MessagesOf(ev.sid), ev.target)

\* C23: once regenerateAssistantMessage has reset a message that an earlier
\* generation still writes, the earlier writer appends no chunk to it, and
\* the regeneration leaves exactly its response as the content.
RegenerationIsOnlyWriter ==
    /\ [][\A a \in InFlight : \A b \in InFlight : ~EarlierWriterAppends(a, b)]_vars
    /\ [](RegenerationDelivered =>
             MessageIn(MessagesOf(ev.sid), ev.target).content = ev.content)

\* the chunk timer of call o fires in this step and its chunk is appended
ChunkLands(o) ==
    /\ calls[o].pc = "await_chunk"
    /\ \/ o \in DOMAIN calls' /\ calls'[o].cursor # calls[o].cursor
       \/ o \notin DOMAIN calls' /\ ev'.op = "settled" /\ ev'.call = o
             /\ ev'.raised = "none"

\* C24: a generation whose own token was triggered appends at most one more
\* chunk to its target, whether it was awaiting the completion or writing
\* chunks when the token was triggered.
CancelledAppendsAtMostOneChunk ==
    [][\A o \in InFlight : (o \in aborted /\ calls[o].late >= 1) => ~ChunkLands(o)]_vars

\* the list of session sid after the step
MessagesAfter(sid) ==
    IF sid \in DOMAIN messagesBySession' THEN messagesBySession'[sid] ELSE <<>>

\* the writer of call o starts in this step and sets its first chunk timer
WriterStarts(o) ==
    /\ calls[o].pc = "await_completion"
    /\ o \in DOMAIN calls'
    /\ calls'[o].pc = "await_chunk"
    /\ HasMessage(MessagesOf(calls[o].sid)', calls[o].target)

\* the task that ran ended a call whose writer had started
WriterReturned == ev.op = "settled" /\ ev.raised # "ApiError"

\* C25: the streaming writer first sets its target's content to empty and
\* its status to streaming; a writer whose signal is aborted returns to its
\* caller without raising; and when the chunk source throws another error
\* the writer raises it to its caller and leaves the target's content as it
\* was.
WriterResetsStopsAndRaises ==
    /\ [][\A o \in InFlight : WriterStarts(o) =>
              /\ MessageIn(MessagesOf(calls[o].sid)', calls[o].target).content = <<>>
              /\ MessageIn(MessagesOf(calls[o].sid)', calls[o].target).status = "streaming"]_vars
    /\ [](WriterReturned => ev.raised \in {"none", "StreamError"})
    /\ []((WriterReturned /\ ev.raised = "none" /\ ev.kind = "sendMessage") =>
             ev.outcome = "resolved")
    /\ [][(WriterReturned' /\ ev'.raised = "StreamError"
              /\ HasMessage(MessagesOf(ev'.sid), ev'.target)) =>
                MessageIn(MessagesAfter(ev'.sid), ev'.target).content =
                   MessageIn(MessagesOf(ev'.sid), ev'.target).content]_vars

\* a writer stopped before the end of its response because its signal was
\* aborted, and its caller went on as after a complete stream
WriterStoppedReached ==
    /\ WriterReturned
    /\ ev.cancelled
    /\ ev.raised = "none"
    /\ HasMessage(MessagesOf(ev.sid), ev.target)
    /\ MessageIn(MessagesOf(ev.sid), ev.target).content = ChunkAt(ev.content, 0)
    /\ ChunkAt(ev.content, 0) # ev.content

\* the chunks streamText yields from cursor on when it runs to exhaustion
RECURSIVE ChunksFrom(_, _)
ChunksFrom(content, cursor) ==
    IF cursor >= Len(content) THEN <<>>
    ELSE <<ChunkAt(content, cursor)>> \o ChunksFrom(content, NextCursor(content, cursor))

RECURSIVE Concat(_)
Concat(chunks) ==
    IF chunks = <<>> THEN <<>> ELSE Head(chunks) \o Concat(Tail(chunks))

\* call o waits for a chunk of a source whose signal is already aborted
TokenFiredBeforeYield(o) ==
    calls[o].pc = "await_chunk" /\ SignalAborted(calls[o].sig, aborted)

\* the source of call o yields its last chunk in this step and returns
RunsToExhaustion(o) ==
    /\ NextCursor(calls[o].content, calls[o].cursor) = Len(calls[o].content)
    /\ o \notin DOMAIN calls'
    /\ ev'.op = "settled"
    /\ ev'.call = o
    /\ ev'.raised = "none"

\* C26: the chunk source, run to exhaustion, yields chunks of length 1 to
\* chunkSize whose concatenation is the content, and once its token has
\* fired before the last chunk was yielded it does not run to exhaustion.
SourceYieldsContentOrCancels ==
    /\ [](\A content \in Responses :
             /\ Concat(ChunksFrom(content, 0)) = content
             /\ \A i \in 1..Len(ChunksFrom(content, 0)) :
                   Len(ChunksFrom(content, 0)[i]) \in 1..ChunkSize)
    /\ [][\A o \in InFlight : TokenFiredBeforeYield(o) => ~RunsToExhaustion(o)]_vars

\* the text messages of list that are not streaming
SettledTexts(list) ==
    SelectSeq(list, LAMBDA m : m.type = "text" /\ m.status # "streaming")

\* request is the {role, content} of the last 8 of texts, in order
IsLastEightOf(request, texts) ==
    LET n == Len(texts)
        k == IF n < 8 THEN n ELSE 8
    IN  /\ Len(request) = k
        /\ \A i \in 1..k :
              request[i] = [role |-> texts[n - k + i].role,
                            content |-> texts[n - k + i].content]

\* the synchronous part of a sendMessage call has just run
SendMessageIssued == ev.op = "sendMessage" /\ ev.call # Null

\* C27: the context sendMessage sends is the {role, content} of the last 8
\* messages of the session with type text and a status other than
\* streaming, in list order: at most 8 entries, none of them the new
\* placeholder, a file or a card, and the last one the user message just
\* appended.
ContextIsLastEightTexts ==
    SendMessageIssued =>
        LET list == MessagesOf(activeSessionId)
            n == Len(list)
        IN  /\ IsLastEightOf(ev.request, SettledTexts(list))
            /\ Len(ev.request) <= 8
            /\ Len(ev.request) >= 1
            /\ ev.request[Len(ev.request)] = [role |-> "user", content |-> Trim(ev.text)]
            /\ list[n - 1].role = "user" /\ list[n - 1].content = Trim(ev.text)
            /\ list[n].status = "streaming"
            /\ \A i \in 1..Len(ev.request) :
                  \E j \in 1..(n - 1) :
                     /\ list[j].type = "text"
                     /\ ev.request[i] = [role |-> list[j].role, content |-> list[j].content]

ContextWindowFullReached ==
    /\ SendMessageIssued
    /\ Len(SettledTexts(MessagesOf(activeSessionId))) > 8
    /\ Len(ev.request) = 8

IsFileOf(msg, file) ==
    msg.role = "user" /\ msg.type = "file" /\ msg.content = file.name

IsPlaceholder(msg) ==
    /\ msg.role = "assistant"
    /\ msg.type = "text"
    /\ msg.content = <<>>
    /\ msg.status = "streaming"

\* a saveFile of sendFiles call o settles in this step
SendFilesSaves(o) ==
    /\ calls[o].kind = "sendFiles"
    /\ calls[o].pc = "await_save"
    /\ o \in DOMAIN calls'
    /\ calls'[o] # calls[o]

\* after is before with the messages added at its end
AddsAtEnd(before, after, added) ==
    /\ Len(after) = Len(before) + added
    /\ SubSeq(after, 1, Len(before)) = before

\* what the step of sendFiles call o that follows a saveFile appends: the
\* file message of the file saved, and after the last file the placeholder
SavedFileAppended(o) ==
    LET f == calls[o]
        before == MessagesOf(f.sid)
        after == MessagesAfter(f.sid)
    IN  IF f.idx < Len(f.files)
        THEN /\ AddsAtEnd(before, after, 1)
             /\ IsFileOf(after[Len(after)], f.files[f.idx])
        ELSE /\ AddsAtEnd(before, after, 2)
             /\ IsFileOf(after[Len(after) - 1], f.files[f.idx])
             /\ IsPlaceholder(after[Len(after)])

\* the end of a sendFiles call appends nothing or one card
AtMostOneCardAppended ==
    LET before == MessagesOf(ev'.sid)
        after == MessagesAfter(ev'.sid)
    IN  /\ Len(after) \in {Len(before), Len(before) + 1}
        /\ \A i \in 1..Len(before) : after[i].id = before[i].id
        /\ Len(after) > Len(before) => IsCard(after[Len(after)])

\* no list of mbs holds the line sendFiles sends for a batch
NoSummaryIn(mbs) ==
    \A sid \in DOMAIN mbs : \A i \in 1..Len(mbs[sid]) :
        \A files \in FileBatches : mbs[sid][i].content # SummaryForApi(files)

\* the request of sendFiles is the context window and then the summary line
RequestIsWindowAndSummary ==
    ev.op = "sendFilesStage" =>
        LET n == Len(ev.request)
        IN  /\ n >= 1
            /\ ev.request[n] = [role |-> "user", content |-> SummaryForApi(ev.files)]
            /\ IsLastEightOf(SubSeq(ev.request, 1, n - 1),
                             SettledTexts(MessagesOf(ev.sid)))

\* C28: the request of sendFiles is the normal context window followed by
\* one user line that summarizes the files; that line is in no list of the
\* store and in no list of the snapshot; and the call appends one user file
\* message per file in batch order, then one placeholder, then at most one
\* card, and nothing else.
SendFilesSendsSummaryAndAddsFiles ==
    /\ []RequestIsWindowAndSummary
    /\ [](NoSummaryIn(messagesBySession) /\ NoSummaryIn(Reloaded.messages))
    /\ [][/\ \A o \in InFlight : SendFilesSaves(o) => SavedFileAppended(o)
          /\ (ev'.op = "settled" /\ ev'.kind = "sendFiles") => AtMostOneCardAppended
          /\ ev'.op = "sendFiles" =>
                \A sid \in DOMAIN messagesBySession' :
                    Len(MessagesAfter(sid)) = Len(MessagesOf(sid))]_vars

SendFilesRequestReached ==
    /\ ev.op = "sendFilesStage"
    /\ Len(ev.request) = 9
    /\ Len(SettledTexts(MessagesOf(ev.sid))) > 8
    /\ IsPlaceholder(MessagesOf(ev.sid)[Len(MessagesOf(ev.sid))])

\* the synchronous part of a regenerateAssistantMessage call has just run
RegenerateIssued == ev.op = "regenerate" /\ ev.call # Null

\* C29: the request of a regeneration has exactly one entry, with role user
\* and the content of the nearest message with role user before the target
\* in the active session's list as the call found it.
RegenerateAsksNearestUser ==
    [][RegenerateIssued' =>
         LET list == MessagesOf(activeSessionId)
             p == FindMessage(list, ev'.messageId)
         IN  /\ Len(ev'.request) = 1
             /\ \E j \in 1..(p - 1) :
                   /\ list[j].role = "user"
                   /\ \A k \in (j + 1)..(p - 1) : list[k].role # "user"
                   /\ ev'.request[1] = [role |-> "user", content |-> list[j].content]]_vars

RegenerateAfterSeveralUsersReached ==
    /\ RegenerateIssued
    /\ ev.messageId = 7
    /\ ev.request = <<[role |-> "user", content |-> <<"q3">>]>>
    /\ MessagesOf(activeSessionId)[1].role = "user"

\* the three cases in which regenerateAssistantMessage(messageId) is to do
\* nothing: no active session, an id that is not in the active session's
\* list, no message with role user before the target
NothingToRegenerate(messageId) ==
    \/ activeSessionId = Null
    \/ ~HasMessage(MessagesOf(activeSessionId), messageId)
    \/ \A j \in 1..(FindMessage(MessagesOf(activeSessionId), messageId) - 1) :
           MessagesOf(activeSessionId)[j].role # "user"

\* C30: regenerateAssistantMessage(messageId) changes no message, no
\* messageIds, no token and no snapshot, cancels no generation in flight and
\* issues no request when there is no active session, when the id is not in
\* the active session's list, or when no user message precedes the target.
RegenerateNoopChangesNothing ==
    [][(ev'.op = "regenerate" /\ NothingToRegenerate(ev'.messageId)) =>
         /\ ev'.call = Null
         /\ sessions' = sessions
         /\ activeSessionId' = activeSessionId
         /\ \A sid \in (DOMAIN messagesBySession) \cup (DOMAIN messagesBySession') :
               MessagesAfter(sid) = MessagesOf(sid)
         /\ streamingMessageId' = streamingMessageId
         /\ isSending' = isSending
         /\ abortController' = abortController
         /\ aborted' = aborted
         /\ storage' = storage
         /\ calls' = calls]_vars

RegenerateNoopDuringGenerationReached ==
    /\ ev.op = "regenerate"
    /\ ev.call = Null
    /\ activeSessionId # Null
    /\ abortController # Null
    /\ InFlight # {}

\* a regenerateAssistantMessage call that no newer generation cancelled has
\* run to its end, and its target is still in its session's list
RegenerationEnded ==
    /\ ev.op = "settled"
    /\ ev.kind = "regenerate"
    /\ ~ev.cancelled
    /\ HasMessage(MessagesOf(ev.sid), ev.target)

\* C31: a regeneration that is not cancelled ends with its target sent and
\* holding the new response when the request and the stream succeed, with a
\* returned card directly after the target, and with its target in error
\* when the request or the stream fails; either way localStorage holds the
\* final state and the call does not throw.
RegenerationEndsSentOrError ==
    RegenerationEnded =>
        LET list == MessagesOf(ev.sid)
            p == FindMessage(list, ev.target)
        IN  /\ ev.outcome = "resolved"
            /\ ev.thrown = "none"
            /\ Reloaded = StoreSnapshot
            /\ ev.raised # "none" => list[p].status = "error"
            /\ ev.raised = "none" =>
                  /\ list[p].status = "sent"
                  /\ list[p].content = ev.content
                  /\ ev.card # NoCard =>
                        /\ Len(list) > p
                        /\ IsCard(list[p + 1])
                        /\ list[p + 1].card = ev.card

(***************************************************************************)
(* Fairness.  The mock backend settles every request after its delay and   *)
(* the timer of every chunk fires, so a call that waits for one of them    *)
(* takes its next step.                                                    *)
(***************************************************************************)
RequestSettles == \E o \in InFlight : CompletionReject(o) \/ CompletionResolve(o)

ChunkTimerFires == \E o \in InFlight : ChunkError(o) \/ ChunkTimer(o)

SpecWriterFair ==
    SpecWriter /\ WF_vars(RequestSettles) /\ WF_vars(ChunkTimerFires)

\* the ids nanoid(12) can produce in a behaviour of the writer's engine: two
\* messages and a card per call
WriterMessageIds == 1..(3 * (MaxCalls + 1))

\* message mid is in a list of the store with status streaming
IsStreaming(mid) ==
    \E sid \in DOMAIN messagesBySession :
        /\ HasMessage(messagesBySession[sid], mid)
        /\ MessageIn(messagesBySession[sid], mid).status = "streaming"

\* the step takes a message from sent or error back to streaming
BackToStreaming(sid, mid) ==
    /\ HasMessage(MessagesOf(sid), mid)
    /\ MessageIn(MessagesOf(sid), mid).status \in {"sent", "error"}
    /\ HasMessage(MessagesAfter(sid), mid)
    /\ MessageIn(MessagesAfter(sid), mid).status = "streaming"

\* C32: when every request settles and every chunk timer fires, a message
\* put in status streaming is later sent, in error or removed, and a step
\* takes a message from sent or error back to streaming only when it is a
\* step of a regenerateAssistantMessage call on that message.
GenerationsTerminate ==
    /\ \A mid \in WriterMessageIds : IsStreaming(mid) ~> ~IsStreaming(mid)
    /\ [][\A sid \in DOMAIN messagesBySession : \A mid \in WriterMessageIds :
             BackToStreaming(sid, mid) =>
                \E o \in 1..(started + 1) :
                    RegenerateSteps(o) /\ RegenerateFrame(o).target = mid]_vars

\* the part of C32 on termination alone
StreamingLeadsToTerminal ==
    \A mid \in WriterMessageIds : IsStreaming(mid) ~> ~IsStreaming(mid)

SessionIds(ss) == [i \in 1..Len(ss) |-> ss[i].id]

\* the synchronous part of a sendMessage or sendFiles call runs in this step
SendEntered == ev'.op \in {"sendMessage", "sendFiles"} /\ ev'.call # Null

\* what ensureSession is to do for the call that enters: with no active
\* session one session more, in front of the others, active and the call's
\* session; else the same sessions in the same order and the active one the
\* call's session
EnsuresSession ==
    IF activeSessionId = Null
    THEN /\ Len(sessions') = Len(sessions) + 1
         /\ SessionIds(Tail(sessions')) = SessionIds(sessions)
         /\ ~HasSession(sessions, sessions'[1].id)
         /\ activeSessionId' = sessions'[1].id
         /\ calls'[ev'.call].sid = sessions'[1].id
    ELSE /\ SessionIds(sessions') = SessionIds(sessions)
         /\ activeSessionId' = activeSessionId
         /\ calls'[ev'.call].sid = activeSessionId

\* call o is the call whose task runs in this step
Acts(o) ==
    \/ ev'.op \in {"sendMessage", "sendFiles", "sendFilesStage", "regenerate",
                   "settled", "blobFailed"} /\ ev'.call = o
    \/ ev'.op = "task" /\ o \in DOMAIN calls /\ o \in DOMAIN calls'
         /\ calls'[o] # calls[o]

FrameOf(o) == IF o \in DOMAIN calls' THEN calls'[o] ELSE calls[o]

\* every message the step adds to the store is in the list of the session of
\* the call that acts, and carries that session's id
NewMessagesGoToCallSession ==
    \A sid \in DOMAIN messagesBySession' :
        \A i \in 1..Len(messagesBySession'[sid]) :
            messagesBySession'[sid][i].id > messageSeq =>
                /\ messagesBySession'[sid][i].sessionId = sid
                /\ \E o \in 1..(started + 1) : Acts(o) /\ FrameOf(o).sid = sid

\* C33: a sendMessage or sendFiles call made with no active session creates
\* exactly one session, in front of the session list and active, and every
\* message of the call is appended to that session; a call made with an
\* active session creates no session and leaves the order of the list.
SendEnsuresOneSession ==
    [][/\ SendEntered => EnsuresSession
       /\ NewMessagesGoToCallSession]_vars

\* the synchronous part of a sendMessage call with no active session has run
SendMadeSessionReached ==
    /\ ev.op = "sendMessage"
    /\ ev.call # Null
    /\ ev.created
    /\ sessions # <<>>
    /\ sessions[1].id = activeSessionId
    /\ Len(sessions[1].messageIds) = 2
    /\ Len(MessagesOf(activeSessionId)) = 2

\* the task of sendFiles call ev'.call that follows a rejected saveFile runs
\* in this step
BlobWriteFailed ==
    \/ ev'.op = "blobFailed"
    \/ ev'.op = "sendFilesStage" /\ ~ev'.saved
    \/ ev'.op = "settled" /\ ev'.raised = "StorageError"

\* msg is the file message of file with id mid: its name, size, mime and the
\* storage key made of "file_" and the id
IsFileMessageOf(msg, mid, file) ==
    /\ msg.id = mid
    /\ msg.role = "user" /\ msg.type = "file" /\ msg.status = "sent"
    /\ msg.content = file.name
    /\ msg.metadata = [size |-> file.size, mime |-> file.type]
    /\ msg.attachment = [name |-> file.name, size |-> file.size,
                         mime |-> file.type, storageKey |-> <<"file_", mid>>]

\* C34: in sendFiles a failing blob write for a file does not stop the
\* batch: the file message of that file is appended with its name, size,
\* mime and the storage key "file_" + message id, the call goes on to the
\* write of the next file, and after the last file to the placeholder and
\* the completion request.
FailedBlobWriteKeepsBatch ==
    [][BlobWriteFailed =>
         LET o == ev'.call
             f == calls[o]
             before == MessagesOf(f.sid)
             after == MessagesAfter(f.sid)
         IN  /\ o \in DOMAIN calls'
             /\ Len(after) > Len(before)
             /\ SubSeq(after, 1, Len(before)) = before
             /\ IsFileMessageOf(after[Len(before) + 1], f.msgId, f.files[f.idx])
             /\ IF f.idx < Len(f.files)
                THEN /\ Len(after) = Len(before) + 1
                     /\ calls'[o].pc = "await_save"
                     /\ calls'[o].idx = f.idx + 1
                ELSE /\ Len(after) = Len(before) + 2
                     /\ IsPlaceholder(after[Len(after)])
                     /\ calls'[o].pc = "await_completion"
                     /\ calls'[o].target = after[Len(after)].id]_vars

\* the write of the last file of a batch of two failed: both file messages
\* and the placeholder are in the list and the request is pending
FailedBlobWriteReached ==
    /\ ev.op = "sendFilesStage"
    /\ ~ev.saved
    /\ Len(ev.files) = 2
    /\ ev.call \in InFlight
    /\ calls[ev.call].pc = "await_completion"
    /\ Len(MessagesOf(ev.sid)) >= 3
    /\ MessagesOf(ev.sid)[Len(MessagesOf(ev.sid)) - 1].type = "file"
    /\ MessagesOf(ev.sid)[Len(MessagesOf(ev.sid)) - 1].attachment.storageKey =
          <<"file_", MessagesOf(ev.sid)[Len(MessagesOf(ev.sid)) - 1].id>>
    /\ IsPlaceholder(MessagesOf(ev.sid)[Len(MessagesOf(ev.sid))])

\* the pointer, when set, is the id of a message of the store in status
\* streaming
PointerIsStreamingMessage ==
    streamingMessageId # Null => IsStreaming(streamingMessageId)

\* call o is the sendMessage call started last, and its placeholder is still
\* in status streaming
LatestSendStreaming(o) ==
    /\ calls[o].kind = "sendMessage"
    /\ ~calls[o].resent
    /\ HasMessage(MessagesOf(calls[o].sid), calls[o].target)
    /\ MessageIn(MessagesOf(calls[o].sid), calls[o].target).status = "streaming"

PointerFollowsLatestSend ==
    \A o \in InFlight :
        LatestSendStreaming(o) => streamingMessageId = calls[o].target

\* C35: whenever streamingMessageId is set it is the id of an existing
\* message in status streaming, and while the placeholder of the send
\* started last is streaming the pointer is that placeholder's id, whatever
\* older generations complete or fail meanwhile.
PointerMatchesStreamingMessage ==
    PointerIsStreamingMessage /\ PointerFollowsLatestSend

\* the sendMessage and sendFiles calls in flight
SendsInFlight == { o \in InFlight : calls[o].kind \in {"sendMessage", "sendFiles"} }

\* the sends, file sends and regenerations in flight
GenerationsInFlight ==
    { o \in InFlight : calls[o].kind \in {"sendMessage", "sendFiles", "regenerate"} }

SendingWhileSendInFlight == SendsInFlight # {} => isSending

IdleWhenNothingInFlight ==
    GenerationsInFlight = {} => (~isSending /\ streamingMessageId = Null)

\* C36: isSending is true from the start of every sendMessage or sendFiles
\* call until that call has settled, also when an older overlapping call
\* settles first, and whenever no send, file send or regeneration is in
\* flight isSending is false and streamingMessageId is null.
IsSendingTracksSends == SendingWhileSendInFlight /\ IdleWhenNothingInFlight

\* neither the store nor the snapshot in localStorage holds a message under
\* id (a list that is missing or empty passes)
NoMessagesUnder(id) ==
    /\ MessagesOf(id) = <<>>
    /\ id \in DOMAIN Reloaded.messages => Reloaded.messages[id] = <<>>

\* the same after the step
NoMessagesUnderAfter(id) ==
    /\ MessagesAfter(id) = <<>>
    /\ id \in DOMAIN Reloaded'.messages => Reloaded'.messages[id] = <<>>

\* C37: once deleteSession(id) has completed, the message store holds no
\* messages under id and no snapshot holds messages under id in any later
\* state, also when a generation for that session was in flight at the
\* delete.
DeleteIsLasting ==
    [][/\ ev'.op = "deleted" => NoMessagesUnderAfter(ev'.sid)
       /\ \A id \in 1..sessionSeq :
             (~HasSession(sessions, id) /\ NoMessagesUnder(id)) =>
                NoMessagesUnderAfter(id)]_vars

\* a generation in flight has the message at position i of session sid as
\* its target
HasLiveGeneration(sid, i) ==
    \E o \in GenerationsInFlight :
        /\ calls[o].sid = sid
        /\ calls[o].target = messagesBySession[sid][i].id

\* C38: every message in status streaming has a generation in flight that
\* targets it, also after the state was built again from the snapshot in
\* localStorage while a generation was in flight: no message is left in
\* status streaming with nothing to move it to sent or error.
StreamingHasLiveGeneration ==
    \A p \in StreamingMessages : HasLiveGeneration(p[1], p[2])

\* the active pointer is none or the id of a session of the list
ActivePointerValid ==
    activeSessionId = Null \/ HasSession(sessions, activeSessionId)

\* every message of the store lies under the id of a session of the list
\* that has the message's id among its messageIds
MessagesBelongToSessions ==
    \A sid \in DOMAIN messagesBySession :
        \A i \in 1..Len(messagesBySession[sid]) :
            /\ HasSession(sessions, sid)
            /\ Includes(sessions[FindSession(sessions, sid)].messageIds,
                        messagesBySession[sid][i].id)

\* C39: in every reachable state the active pointer is none or the id of a
\* session in the session list, and every message a send appended belongs to
\* a session that exists and has the message's id in its messageIds.
ActivePointerNamesSession == ActivePointerValid /\ MessagesBelongToSessions

(***************************************************************************)
(* Messages that are not assistant text: user text, files and cards         *)
(***************************************************************************)
NotAssistantText(msg) == msg.role = "user" \/ msg.type \in {"file", "card"}

\* the message keeps its status and its content in this step, when it is
\* still in its list afterwards
KeptAsIs(sid, msg) ==
    \A j \in 1..Len(MessagesAfter(sid)) :
        MessagesAfter(sid)[j].id = msg.id =>
            /\ MessagesAfter(sid)[j].status = msg.status
            /\ MessagesAfter(sid)[j].content = msg.content

\* C40: only assistant text messages are regenerated: a user, file or card
\* message has status sent, and no step, regenerateAssistantMessage with its
\* id included, changes its status or its content.
OnlyAssistantTextRegenerated ==
    [][\A sid \in DOMAIN messagesBySession :
           \A i \in 1..Len(messagesBySession[sid]) :
               NotAssistantText(messagesBySession[sid][i]) =>
                   /\ messagesBySession[sid][i].status = "sent"
                   /\ KeptAsIs(sid, messagesBySession[sid][i])]_vars

====
